---- MODULE Spec2Model ----
(***************************************************************************)
(* The run service of the two agents of this repository:                   *)
(*   - the stage graph (test_sprite_agent/src/agents/orchestrator.py and   *)
(*     nodes.py) with its concatenating reducer (state.py),                *)
(*   - the run store RUNS / runs.json and the background tasks of          *)
(*     api_server.py (run_agent_task, run_scenarios_task), with the        *)
(*     delete handlers, task cancellation, process crash and restart.      *)
(* One action is one block of code that runs without suspension on the     *)
(* asyncio event loop.                                                      *)
(***************************************************************************)
EXTENDS Integers, Sequences, FiniteSets, TLC

---------------------------------------------------------------------------
(* Bounds of the model *)

\* run ids the multi-run specification may hand out
MaxRuns == 2
\* tool calls of one run that may raise
MaxRaises == 2
\* scenarios of a scenario run
NScenarios == 2
\* scenarios of a test plan
MaxPlan == 3
\* pages of an app map
MaxPages == 2
\* scenarios of the plan files the execute tool runs
NTests == 2
\* URLs of the site the Explorer crawls
NUrls == 3
\* steps of a scenario that execute_scenario runs
MaxSteps == 2
\* selectors of the target of a fill or click step
NSelectors == 2

(* Program constants *)

\* should_fix: state.get("max_retries", 3)
DefaultMaxRetries == 3
\* should_fix / fix_tests_node: state.get("retries", 0)
DefaultRetries == 0
\* should_fix: results.get("exit_code", 0)
DefaultExitCode == 0
\* section 5 of the specification: max_concurrent_runs (default 4)
MaxConcurrentRuns == 4

\* every run id any specification uses
Ids == 1..(MaxConcurrentRuns + MaxRuns)

VARIABLES
    RUNS,    \* api_server.RUNS: run id -> record, or NoRun
    disk,    \* content of runs.json: a document, or Truncated
    up,      \* the server process is alive
    nextId,  \* the next fresh uuid4
    task,    \* run id -> position of the run's background task
    graph,   \* run id -> the shared state of the run's stage graph
    env,     \* the environment chosen at start (what may go wrong)
    hist,    \* run id -> what happened to the run (observation only)
    boot,    \* the last death of the process (observation only)
    fs,      \* the directory trees of the runs: what each of them holds
    planner, \* a PlannerAgent: its app map, scenarios and scenario_counter
    executor,\* one call of the execute tool, its subprocess and the
             \* progress file execution_progress.json
    crawl,   \* an ExplorerAgent during explore(max_pages)
    scenario_result \* one call of execute_scenario(page, scenario, base_url)

\* The run service, and the components that do not touch it
service == <<RUNS, disk, up, nextId, task, graph, env, hist, boot, fs>>
others == <<planner, executor, crawl, scenario_result>>
vars == <<RUNS, disk, up, nextId, task, graph, env, hist, boot, fs, planner,
          executor, crawl, scenario_result>>

---------------------------------------------------------------------------
(* Values *)

\* The directories a project_path can name: ./temp_runs/<run_id>, the
\* project of a request (request.project_path), and Path(target_url),
\* which is no directory.  NoPath is the missing key "project_path".
TempRun(r) == [root |-> "temp_runs", run |-> r]
ProjectDir == [root |-> "project", run |-> 0]
UrlPath == [root |-> "url", run |-> 0]
NoPath == [root |-> "none", run |-> 0]

\* A run record of RUNS.  Keys a record does not have hold <<>>.
NoRun ==
    [ id |-> 0, type |-> "none", status |-> "absent", steps |-> <<>>,
      results |-> <<>>, report_path |-> <<>>, error |-> <<>>,
      project_path |-> NoPath, completed_at |-> FALSE ]

\* runs.json after open(RUNS_FILE, "w") and before json.dump has finished
Truncated == [valid |-> FALSE, runs |-> {}]

\* dict.get(key, default) on a channel that holds <<>> or <<value>>
Get(ch, default) == IF ch = <<>> THEN default ELSE ch[1]

StageNames ==
    {"bootstrap", "analyze", "prd", "frontend_plan", "backend_plan",
     "security_plan", "join_plans", "execute", "fix_tests", "report"}

\* The number of occurrences of x in the sequence s
RECURSIVE Count(_, _)
Count(s, x) ==
    IF s = <<>> THEN 0
    ELSE (IF Head(s) = x THEN 1 ELSE 0) + Count(Tail(s), x)

---------------------------------------------------------------------------
(* The stage graph: state.py, nodes.py, orchestrator.py *)

\* The initial state run_agent_task hands to astream: the two lists are
\* empty, and there is no retries, max_retries or test_results key
InitialGraphState ==
    [ next            |-> "bootstrap",
      steps_completed |-> <<>>,
      error_log       |-> <<>>,
      retries         |-> <<>>,
      max_retries     |-> <<>>,
      test_results    |-> <<>>,
      report_path     |-> <<>>,
      written         |-> {},
      files           |-> {},
      executed_plans  |-> {} ]

\* A delta that writes nothing
EmptyDelta ==
    [ steps_completed |-> <<>>,
      error_log       |-> <<>>,
      retries         |-> <<>>,
      test_results    |-> <<>>,
      report_path     |-> <<>>,
      written         |-> {} ]

\* A reducer that keeps the last value written on the two lists too
ReduceLastWriter(s, d) ==
    [ s EXCEPT
        !.steps_completed = IF d.steps_completed = <<>> THEN @ ELSE d.steps_completed,
        !.error_log       = IF d.error_log = <<>> THEN @ ELSE d.error_log,
        !.retries         = IF d.retries = <<>> THEN @ ELSE d.retries,
        !.test_results    = IF d.test_results = <<>> THEN @ ELSE d.test_results,
        !.report_path     = IF d.report_path = <<>> THEN @ ELSE d.report_path,
        !.written         = @ \cup d.written ]

\* TestingState's reducers: the two lists are Annotated with operator.add,
\* every other channel keeps the last value written
Reduce(s, d) ==
    [ s EXCEPT
        !.steps_completed = @ \o d.steps_completed,
        !.error_log       = @ \o d.error_log,
        !.retries         = IF d.retries = <<>> THEN @ ELSE d.retries,
        !.test_results    = IF d.test_results = <<>> THEN @ ELSE d.test_results,
        !.report_path     = IF d.report_path = <<>> THEN @ ELSE d.report_path,
        !.written         = @ \cup d.written ]

\* A node that puts its name into steps_completed when its tool failed too
SimpleNodeAlwaysCompleted(name, channels, ok) ==
    [EmptyDelta EXCEPT !.steps_completed = <<name>>,
                       !.error_log = IF ok THEN <<>> ELSE <<name>>,
                       !.written = IF ok THEN channels ELSE {}]

\* The nodes that only call one tool: {"<channel>": result,
\* "steps_completed": [name]} or, when the tool fails, {"error_log": [...]}
SimpleNode(name, channels, ok) ==
    IF ok
    THEN [EmptyDelta EXCEPT !.steps_completed = <<name>>, !.written = channels]
    ELSE [EmptyDelta EXCEPT !.error_log = <<name>>]

bootstrap_node(s, ok) == SimpleNode("bootstrap", {"bootstrap_result"}, ok)
analyze_code_node(s, ok) ==
    SimpleNode("analyze", {"code_summary", "project_type"}, ok)
generate_prd_node(s, ok) == SimpleNode("prd", {"prd"}, ok)
frontend_plan_node(s, ok) == SimpleNode("frontend_plan", {"frontend_plan"}, ok)
backend_plan_node(s, ok) == SimpleNode("backend_plan", {"backend_plan"}, ok)
\* "security_plan" is no channel of TestingState: the key is not stored
security_plan_node(s, ok) == SimpleNode("security_plan", {}, ok)

\* The composite exit code of testsprite_generate_code_and_execute
ExitCode(out) == IF out = "exit0" THEN 0 ELSE 1

\* execute_tests_node: the tool raises, or answers with its exit code
execute_tests_node(s, out) ==
    IF out = "raise"
    THEN [EmptyDelta EXCEPT !.error_log = <<"execute">>]
    ELSE [EmptyDelta EXCEPT !.test_results = <<ExitCode(out)>>,
                            !.steps_completed = <<"execute">>]

report_node(s, ok) ==
    IF ok
    THEN [EmptyDelta EXCEPT !.report_path = <<"report.html">>,
                            !.steps_completed = <<"report">>]
    ELSE [EmptyDelta EXCEPT !.error_log = <<"report">>]

\* fix_tests_node: the fix tool answers success, answers success = false,
\* or the node raises before it has an answer
fix_tests_node(s, out) ==
    CASE out = "success" ->
            [EmptyDelta EXCEPT
                !.retries = <<Get(s.retries, DefaultRetries) + 1>>,
                !.steps_completed = <<"fix_tests">>]
      [] out = "no_success" ->
            [EmptyDelta EXCEPT
                !.retries = <<Get(s.retries, DefaultRetries) + 1>>,
                !.error_log = <<"fix_tests">>]
      [] OTHER ->
            [EmptyDelta EXCEPT !.error_log = <<"fix_tests">>]

\* join_plans is lambda x: x: the whole state comes back as the delta
join_plans(s) ==
    [ steps_completed |-> s.steps_completed,
      error_log       |-> s.error_log,
      retries         |-> s.retries,
      test_results    |-> s.test_results,
      report_path     |-> s.report_path,
      written         |-> s.written ]

\* A conditional edge that allows one retry more: retries <= max_retries
ShouldFixUpToMax(s) ==
    LET exit_code   == Get(s.test_results, DefaultExitCode)
        retries     == Get(s.retries, DefaultRetries)
        max_retries == Get(s.max_retries, DefaultMaxRetries)
    IN  IF exit_code # 0 /\ retries <= max_retries
        THEN "fix_tests"
        ELSE "report"

\* A conditional edge whose retry branch leads back to the plan stages
ShouldFixBackToPlans(s) ==
    LET exit_code   == Get(s.test_results, DefaultExitCode)
        retries     == Get(s.retries, DefaultRetries)
        max_retries == Get(s.max_retries, DefaultMaxRetries)
    IN  IF exit_code # 0 /\ retries < max_retries
        THEN "plans"
        ELSE "report"

\* The conditional edge after execute
should_fix(s) ==
    LET exit_code   == Get(s.test_results, DefaultExitCode)
        retries     == Get(s.retries, DefaultRetries)
        max_retries == Get(s.max_retries, DefaultMaxRetries)
    IN  IF exit_code # 0 /\ retries < max_retries
        THEN "fix_tests"
        ELSE "report"


\* What run_agent_task reads from one streamed event {key: value}
Event(key, d) ==
    [key |-> key, test_results |-> d.test_results, report_path |-> d.report_path]

\* The plan file each plan tool writes when it succeeds
PlanFile ==
    [ backend  |-> "backend_test_plan.json",
      frontend |-> "frontend_test_plan.json",
      security |-> "security_test_plan.json" ]

\* One superstep of the compiled graph from state s.  `in` holds what the
\* tools of this superstep do.  The result is the state after the reducer
\* has merged the deltas, and the events astream yields for the superstep.
\* The three plan nodes share one superstep; their deltas are merged in the
\* order of the node names.
Superstep(s, in) ==
    CASE s.next = "bootstrap" ->
            LET d == bootstrap_node(s, in.ok)
            IN  [state  |-> [Reduce(s, d) EXCEPT !.next = "analyze"],
                 events |-> <<Event("bootstrap", d)>>]
      [] s.next = "analyze" ->
            LET d == analyze_code_node(s, in.ok)
            IN  [state  |-> [Reduce(s, d) EXCEPT !.next = "prd"],
                 events |-> <<Event("analyze", d)>>]
      [] s.next = "prd" ->
            LET d == generate_prd_node(s, in.ok)
            IN  [state  |-> [Reduce(s, d) EXCEPT !.next = "plans"],
                 events |-> <<Event("prd", d)>>]
      [] s.next = "plans" ->
            LET db == backend_plan_node(s, in.backend)
                df == frontend_plan_node(s, in.frontend)
                ds == security_plan_node(s, in.security)
                saved == {PlanFile[n] : n \in {m \in DOMAIN PlanFile : in[m]}}
            IN  [state  |-> [Reduce(Reduce(Reduce(s, db), df), ds) EXCEPT
                                !.next = "join_plans",
                                !.files = @ \cup saved],
                 events |-> <<Event("backend_plan", db),
                              Event("frontend_plan", df),
                              Event("security_plan", ds)>>]
      [] s.next = "join_plans" ->
            LET d == join_plans(s)
            IN  [state  |-> [Reduce(s, d) EXCEPT !.next = "execute"],
                 events |-> <<Event("join_plans", d)>>]
      [] s.next = "execute" ->
            LET d  == execute_tests_node(s, in.out)
                s1 == [Reduce(s, d) EXCEPT
                          !.executed_plans =
                              IF in.out = "raise" THEN @ ELSE s.files]
            IN  [state  |-> [s1 EXCEPT !.next = should_fix(s1)],
                 events |-> <<Event("execute", d)>>]
      [] s.next = "fix_tests" ->
            LET d == fix_tests_node(s, in.out)
            IN  [state  |-> [Reduce(s, d) EXCEPT !.next = "execute"],
                 events |-> <<Event("fix_tests", d)>>]
      [] s.next = "report" ->
            LET d == report_node(s, in.ok)
            IN  [state  |-> [Reduce(s, d) EXCEPT !.next = "END"],
                 events |-> <<Event("report", d)>>]

\* The number of tool calls `in` lets raise in the superstep `next`
Raises(next, in) ==
    CASE next \in {"bootstrap", "analyze", "prd", "report"} ->
            IF in.ok THEN 0 ELSE 1
      [] next = "plans" ->
            Cardinality({m \in DOMAIN PlanFile : ~in[m]})
      [] next \in {"execute", "fix_tests"} ->
            IF in.out = "raise" THEN 1 ELSE 0
      [] OTHER -> 0

\* What the tools of the superstep `next` may do
ToolInputs(next) ==
    CASE next \in {"bootstrap", "analyze", "prd", "report"} ->
            [ok : BOOLEAN, backend : {TRUE}, frontend : {TRUE},
             security : {TRUE}, out : {"none"}]
      [] next = "plans" ->
            [ok : {TRUE}, backend : BOOLEAN, frontend : BOOLEAN,
             security : BOOLEAN, out : {"none"}]
      [] next = "execute" ->
            [ok : {TRUE}, backend : {TRUE}, frontend : {TRUE},
             security : {TRUE}, out : {"exit0", "exit1", "raise"}]
      [] next = "fix_tests" ->
            [ok : {TRUE}, backend : {TRUE}, frontend : {TRUE},
             security : {TRUE}, out : {"success", "no_success", "raise"}]
      [] OTHER ->
            [ok : {TRUE}, backend : {TRUE}, frontend : {TRUE},
             security : {TRUE}, out : {"none"}]

---------------------------------------------------------------------------
(* The run store: RUNS and runs.json (api_server.py) *)

Present(runs) == {r \in Ids : runs[r] # NoRun}
NoRuns == [r \in Ids |-> NoRun]

\* json.dump(RUNS, f): the document holds one object per run id
json_dump(runs) == [valid |-> TRUE, runs |-> {runs[r] : r \in Present(runs)}]

\* load_runs: the parsed document, or {} when the file cannot be parsed
load_runs(doc) ==
    IF doc.valid
    THEN [r \in Ids |->
            IF \E rec \in doc.runs : rec.id = r
            THEN CHOOSE rec \in doc.runs : rec.id = r
            ELSE NoRun]
    ELSE NoRuns

\* start_run: the record of a new agent run
NewAgentRun(id, request) ==
    [ id |-> id, type |-> "agent", status |-> "pending", steps |-> <<>>,
      results |-> <<>>, report_path |-> <<>>, error |-> <<>>,
      project_path |-> IF request.target_url THEN UrlPath ELSE ProjectDir,
      completed_at |-> FALSE ]

\* run_plan_scenarios: the record of a new scenario run
NewScenarioRun(id) ==
    [ id |-> id, type |-> "scenario_run", status |-> "pending", steps |-> <<>>,
      results |-> <<>>, report_path |-> <<>>, error |-> <<>>,
      project_path |-> NoPath, completed_at |-> FALSE ]

\* A save_runs that leaves runs.json as it is
SaveNothing(runs, doc, w) == doc

\* What one call of save_runs may do: write the document, raise before it
\* touched the file, or be cut short by the death of the process
WriteOutcomes == IF env.faults THEN {"ok", "raise", "crash"} ELSE {"ok"}

\* save_runs() with RUNS = runs and runs.json = doc
save_runs(runs, doc, w) ==
    CASE w = "ok"    -> json_dump(runs)
      [] w = "raise" -> doc
      [] OTHER       -> Truncated

\* run_agent_task, the body of the stream loop for one event:
\* RUNS[run_id]["steps"].append(key)
AppendStep(rec, ev) == [rec EXCEPT !.steps = Append(@, ev.key)]

\* ... and, after save_runs, the partial results of the event
UpdatePartial(rec, ev) ==
    [ rec EXCEPT
        !.results     = IF ev.test_results = <<>> THEN @ ELSE ev.test_results,
        !.report_path = IF ev.report_path = <<>> THEN @ ELSE ev.report_path ]

\* The stream loop over the events of one superstep.  The save of event
\* number f.at ends as f.w says, every other save is written.  result is
\* "ok", "raised" (an exception reached the except clause of the task) or
\* "crash" (the process died in save_runs, which was replacing `before` by
\* `after`).
RECURSIVE HandleEvents(_, _, _, _, _, _)
HandleEvents(runs, doc, r, evs, i, f) ==
    IF evs = <<>>
    THEN [runs |-> runs, disk |-> doc, result |-> "ok",
          before |-> doc, after |-> doc]
    ELSE IF runs[r] = NoRun
    THEN [runs |-> runs, disk |-> doc, result |-> "raised",
          before |-> doc, after |-> doc]
    ELSE LET ev    == Head(evs)
             runs1 == [runs EXCEPT ![r] = AppendStep(@, ev)]
             w     == IF i = f.at THEN f.w ELSE "ok"
             runs2 == [runs1 EXCEPT ![r] = UpdatePartial(@, ev)]
         IN  CASE w = "crash" ->
                    [runs |-> runs1, disk |-> save_runs(runs1, doc, w),
                     result |-> "crash",
                     before |-> doc, after |-> json_dump(runs1)]
               [] w = "raise" ->
                    [runs |-> runs1, disk |-> save_runs(runs1, doc, w),
                     result |-> "raised",
                     before |-> doc, after |-> doc]
               [] OTHER ->
                    HandleEvents(runs2, save_runs(runs1, doc, w), r,
                                 Tail(evs), i + 1, f)

\* Which save of a superstep with n events goes wrong, and how
SaveFaults(n) ==
    {[at |-> 0, w |-> "ok"]} \cup
    [at : 1..n, w : WriteOutcomes \ {"ok"}]

\* run_agent_task: the try block ended without an exception
MarkCompleted(rec) == [rec EXCEPT !.status = "completed"]

\* run_agent_task, run_scenarios_task: the except clause
MarkFailed(rec) == [rec EXCEPT !.status = "failed", !.error = <<"error">>]

\* run_agent_task, run_scenarios_task: RUNS[run_id]["status"] = "running"
MarkRunning(rec) == [rec EXCEPT !.status = "running"]

\* run_agent_task: RUNS[run_id]["project_path"] = fs_project_path
SetProjectPath(rec, fs_project_path) ==
    [rec EXCEPT !.project_path = fs_project_path]

\* fs_project_path of run_agent_task(run_id, project_path, target_url, ...)
ResolvedPath(r, target_url) == IF target_url THEN TempRun(r) ELSE ProjectDir

---------------------------------------------------------------------------
(* State of the tasks and of the observers *)

\* A background task: pc is "none", "queued" (add_task), then the await it
\* is suspended at, then "done" (returned) or "dead" (an exception or a
\* cancellation left it).  i and results are run_scenarios_task's locals;
\* scenarios is run_scenarios_task's argument, auth the id of its
\* auth_scenario (0 for None), results its dict in insertion order.
\* target_url and credentials are run_agent_task's arguments (whether they
\* are given), fs_project_path its local.
NoTask ==
    [kind |-> "none", pc |-> "none", i |-> 0, results |-> <<>>,
     scenarios |-> <<>>, auth |-> 0,
     target_url |-> FALSE, credentials |-> FALSE, fs_project_path |-> NoPath]

QueuedTask(kind) == [NoTask EXCEPT !.kind = kind, !.pc = "queued"]

\* No credentials: load_credentials returns None; and the observation of
\* a run none of whose subprocesses has called load_credentials yet
NoCredentials == 0
NotLoaded == -1

NoHist ==
    [ execute |-> 0, fix_tests |-> 0, report |-> 0, join_plans |-> 0,
      raised |-> 0, only_failing |-> TRUE, save_failed |-> FALSE,
      cancelled |-> FALSE, late_stage |-> FALSE,
      outlived |-> FALSE,
      wrote |-> {}, removed |-> {}, deleted |-> FALSE,
      loaded |-> NotLoaded,
      progress |-> [view |-> "none", response |-> "none"] ]

\* The directories: absent, present, or present with
\* testsprite_tests/execution_progress.json in it
Trees == {ProjectDir} \cup {TempRun(r) : r \in Ids}

\* CREDENTIALS_FILE of the scripts generated under `tree`:
\* <tree>/testsprite_tests/test_credentials.json.  The file holds the
\* credentials of the request of one run, or it is not there
CredentialsFile(tree) ==
    [root |-> tree.root, run |-> tree.run, file |-> "test_credentials.json"]

\* The project of the requests is there, no run has a directory
InitialFiles ==
    [t \in Trees \cup {CredentialsFile(tree) : tree \in Trees} |->
        IF t \notin Trees THEN NoCredentials
        ELSE IF t = ProjectDir THEN "present" ELSE "absent"]

\* run_agent_task: `if credentials:` the directory is made and the
\* credentials of run r are dumped into the credentials file
SaveCredentials(files, tree, r, credentials) ==
    IF credentials
    THEN [files EXCEPT ![tree] = IF @ = "absent" THEN "present" ELSE @,
                       ![CredentialsFile(tree)] = r]
    ELSE files

\* load_credentials of a script generated under `tree`
load_credentials(files, tree) == files[CredentialsFile(tree)]

\* mkdir(parents=True, exist_ok=True) and the write of a file under it
Mkdir(files, tree) ==
    [files EXCEPT ![tree] = IF @ = "absent" THEN "present" ELSE @]

\* The write of testsprite_tests/execution_progress.json
WriteProgress(files, tree) == [files EXCEPT ![tree] = "progress"]

\* if base_path.exists(): shutil.rmtree(base_path), for the record rec
Rmtree(files, rec) ==
    IF rec.project_path \in Trees
    THEN [files EXCEPT ![rec.project_path] = "absent",
                       ![CredentialsFile(rec.project_path)] = NoCredentials]
    ELSE files

\* The observer notes the directory the task of run r wrote into
NoteWrote(h, r, tree) == [h EXCEPT ![r].wrote = @ \cup {tree}]

\* The observer notes the directory delete_run(r) removed
NoteDeleted(h, r) ==
    [h EXCEPT ![r].deleted = TRUE,
              ![r].removed = @ \cup
                  IF RUNS[r].project_path \in Trees
                     /\ fs[RUNS[r].project_path] # "absent"
                  THEN {RUNS[r].project_path} ELSE {}]

EmptyDoc == json_dump(NoRuns)

FreshBoot ==
    [phase |-> "fresh", mid_save |-> FALSE, before |-> EmptyDoc, after |-> EmptyDoc]

\* The process dies.  doc is what runs.json holds at that moment; when it
\* dies inside save_runs, that call was replacing `before` by `after`.
Dies(doc, mid_save, before, after, h) ==
    /\ up' = FALSE
    /\ disk' = doc
    /\ RUNS' = NoRuns
    /\ task' = [r \in Ids |-> NoTask]
    /\ graph' = [r \in Ids |-> InitialGraphState]
    /\ boot' = [phase |-> "down", mid_save |-> mid_save,
                before |-> before, after |-> after]
    /\ hist' = h

\* The end of a handler or task block that leaves memory as `runs` and
\* runs.json as `doc`
Lives(runs, doc) ==
    /\ RUNS' = runs
    /\ disk' = doc
    /\ UNCHANGED <<up, boot>>

\* The last statement of a block is save_runs(), with memory `runs` and
\* runs.json `doc`: the task of run r moves to `ok` when the document was
\* written and to `raised` when save_runs raised
SaveAndGo(runs, doc, w, r, ok, raised, h) ==
    IF w = "crash"
    THEN Dies(save_runs(runs, doc, w), TRUE, doc, json_dump(runs), h)
    ELSE /\ Lives(runs, save_runs(runs, doc, w))
         /\ task' = [task EXCEPT ![r] = IF w = "ok" THEN ok ELSE raised]
         /\ hist' = h

\* The task of run r left by an exception, or returned
Dead(r) == [task[r] EXCEPT !.pc = "dead"]
Done(r) == [task[r] EXCEPT !.pc = "done"]

Terminal == {"completed", "failed"}

\* The observer notes the runs that are completed or failed when a block of
\* the task of another run r runs
Later(h, r) ==
    [q \in Ids |->
       [h[q] EXCEPT !.outlived = @ \/ (q # r /\ RUNS[q].status \in Terminal)]]

SaveFailed(r, w) ==
    Later([hist EXCEPT ![r].save_failed = @ \/ (w = "raise")], r)

---------------------------------------------------------------------------
(* The handlers of api_server.py *)

\* The requests of POST /api/run: a target_url or a project_path, with
\* test_credentials or without
RunRequests ==
    IF env.local
    THEN [target_url : BOOLEAN, credentials : BOOLEAN]
    ELSE {[target_url |-> TRUE, credentials |-> FALSE]}

\* GET /api/run/{run_id}: the record, or 404
get_run_status(runs, r) ==
    IF runs[r] = NoRun
    THEN [status_code |-> 404, run |-> NoRun]
    ELSE [status_code |-> 200, run |-> runs[r]]

\* POST /api/run
start_run(r) ==
    /\ UNCHANGED others
    /\ up /\ r = nextId /\ r <= env.ids
    /\ nextId' = r + 1
    /\ UNCHANGED <<env, graph, fs>>
    /\ \E w \in WriteOutcomes, request \in RunRequests :
         SaveAndGo([RUNS EXCEPT ![r] = NewAgentRun(r, request)], disk, w, r,
                   [QueuedTask("agent") EXCEPT
                       !.target_url = request.target_url,
                       !.credentials = request.credentials],
                   NoTask, hist)

\* A scenario of a plan as run_scenarios_task reads it: its id (the
\* ordinal of the scenario in the plan) and its depends_on (0 for None)
ScenarioIds == 1..MaxPlan

\* The id the Planner writes into depends_on: "auth_001"
AuthDependency == 1

\* The test plans of PLANS: scenarios in emission order, each depending on
\* nothing or on "auth_001"
Plans ==
    { p \in [ScenarioIds -> [id : ScenarioIds, depends_on : {0, AuthDependency}]] :
        /\ \A k \in ScenarioIds : p[k].id = k
        /\ p[AuthDependency].depends_on = 0 }

\* run_plan_scenarios: the scenarios of the plan whose id is in ids, in the
\* order of the plan (scenario_ids, a module, or all of them)
SelectScenarios(plan, ids) == SelectSeq(plan, LAMBDA sc : sc.id \in ids)

\* The plan and request the other specifications use: every scenario but
\* the first depends on the first
DefaultSelection ==
    [k \in 1..NScenarios |->
        [id |-> k, depends_on |-> IF k = AuthDependency THEN 0 ELSE AuthDependency]]

\* scenarios_to_run of the requests that are not refused with 400
RunSelections ==
    IF env.plans
    THEN { SelectScenarios(p, ids) :
             p \in Plans, ids \in (SUBSET ScenarioIds) \ {{}} }
    ELSE {DefaultSelection}

\* POST /api/plans/{plan_id}/run, for a plan that is ready and has scenarios
run_plan_scenarios(r) ==
    /\ UNCHANGED others
    /\ up /\ r = nextId /\ r <= env.ids
    /\ nextId' = r + 1
    /\ UNCHANGED <<env, graph, fs>>
    /\ \E w \in WriteOutcomes, sel \in RunSelections :
         SaveAndGo([RUNS EXCEPT ![r] = NewScenarioRun(r)], disk, w, r,
                   [QueuedTask("scenario_run") EXCEPT !.scenarios = sel],
                   NoTask, hist)

\* DELETE /api/run/{run_id}
delete_run(r) ==
    /\ UNCHANGED others
    /\ up /\ RUNS[r] # NoRun
    /\ UNCHANGED <<nextId, env, graph>>
    /\ fs' = Rmtree(fs, RUNS[r])
    /\ \E w \in WriteOutcomes :
         SaveAndGo([RUNS EXCEPT ![r] = NoRun], disk, w, r,
                   task[r], task[r], NoteDeleted(hist, r))

\* DELETE /api/runs
delete_all_runs ==
    /\ UNCHANGED others
    /\ up /\ Present(RUNS) # {}
    /\ UNCHANGED <<nextId, env, graph>>
    /\ fs' = [t \in DOMAIN fs |->
                IF \E r \in Present(RUNS) : RUNS[r].project_path = t
                THEN "absent"
                ELSE IF \E r \in Present(RUNS) :
                           /\ RUNS[r].project_path \in Trees
                           /\ CredentialsFile(RUNS[r].project_path) = t
                THEN NoCredentials
                ELSE fs[t]]
    /\ \E w \in WriteOutcomes :
         IF w = "crash"
         THEN Dies(save_runs(NoRuns, disk, w), TRUE, disk, json_dump(NoRuns), hist)
         ELSE /\ Lives(NoRuns, save_runs(NoRuns, disk, w))
              /\ UNCHANGED <<task, hist>>

\* A task is in the execute stage with its files under `tree`: the tool
\* and its subprocesses rewrite the progress file, with open(..., "w")
Writing(tree) ==
    \E q \in Ids : /\ task[q].kind = "agent" /\ task[q].pc = "stream"
                   /\ task[q].fs_project_path = tree
                   /\ graph[q].next = "execute"

\* What a reader may find at
\* <project_path>/testsprite_tests/execution_progress.json: no file, a
\* file that is being written, or a whole document
ProgressViews(path) ==
    IF path \notin Trees THEN {"absent"}
    ELSE {IF fs[path] = "progress" THEN "valid" ELSE "absent"}
            \cup (IF Writing(path) THEN {"partial", "valid"} ELSE {})

\* The answer of GET /api/run/{run_id}/progress for the record rec
ProgressResponse(rec, view) ==
    IF rec = NoRun THEN "404"
    ELSE IF rec.project_path = NoPath THEN "KeyError"
    ELSE CASE view = "absent"  -> "pending"
           [] view = "partial" -> "error"
           [] OTHER            -> "progress"

\* GET /api/run/{run_id}/progress, for an id that was given to a run
get_execution_progress(r) ==
    /\ UNCHANGED others
    /\ up /\ r < nextId
    /\ \E view \in ProgressViews(RUNS[r].project_path) :
          hist' = [hist EXCEPT ![r].progress =
                      [view |-> view,
                       response |-> ProgressResponse(RUNS[r], view)]]
    /\ UNCHANGED <<RUNS, disk, up, nextId, task, graph, env, boot, fs>>

---------------------------------------------------------------------------
(* run_agent_task *)

\* From the start of the task to the first await of the stream loop
run_agent_task_begin(r) ==
    /\ UNCHANGED others
    /\ up /\ task[r].kind = "agent" /\ task[r].pc = "queued"
    /\ UNCHANGED <<nextId, env, graph>>
    /\ IF RUNS[r] = NoRun
       THEN \* KeyError on RUNS[run_id]
            /\ Lives(RUNS, disk)
            /\ task' = [task EXCEPT ![r] = Dead(r)]
            /\ UNCHANGED <<hist, fs>>
       ELSE \E w1, w2 \in WriteOutcomes :
              LET fs_project_path == ResolvedPath(r, task[r].target_url)
                  runs1 == [RUNS EXCEPT ![r] = MarkRunning(@)]
                  runs2 == [runs1 EXCEPT ![r] = SetProjectPath(@, fs_project_path)]
                  \* "Save credentials to config file for test execution"
                  saves == w1 = "ok" /\ w2 = "ok" /\ task[r].credentials
              IN  /\ fs' = IF w1 = "ok" /\ w2 = "ok"
                            THEN SaveCredentials(fs, fs_project_path, r,
                                                 task[r].credentials)
                            ELSE fs
                  /\ IF w1 # "ok"
                     THEN /\ w2 = "ok"
                          /\ SaveAndGo(runs1, disk, w1, r, Dead(r), Dead(r),
                                       SaveFailed(r, w1))
                     ELSE SaveAndGo(runs2, save_runs(runs1, disk, w1), w2, r,
                                    [task[r] EXCEPT
                                        !.pc = "stream",
                                        !.fs_project_path = fs_project_path],
                                    Dead(r),
                                    IF saves
                                    THEN NoteWrote(SaveFailed(r, w2), r, fs_project_path)
                                    ELSE SaveFailed(r, w2))

\* What the observer notes of the superstep `next` run with inputs `in`
Observe(h, next, in) ==
    [ h EXCEPT
        !.execute      = IF next = "execute" THEN @ + 1 ELSE @,
        !.fix_tests    = IF next = "fix_tests" THEN @ + 1 ELSE @,
        !.report       = IF next = "report" THEN @ + 1 ELSE @,
        !.join_plans   = IF next = "join_plans" THEN @ + 1 ELSE @,
        !.raised       = @ + Raises(next, in),
        !.only_failing = @ /\ (next = "execute" => in.out = "exit1"),
        !.late_stage   = @ \/ h.save_failed \/ h.cancelled ]

\* The files after the superstep `next`, whose tools got
\* state["project_path"] = tree: a tool that returns has made the
\* directory and written its file in it, the execute tool the progress
\* file too
ToolWrites(next, in) ==
    CASE next = "join_plans" -> FALSE
      [] next = "plans" -> Raises(next, in) < Cardinality(DOMAIN PlanFile)
      [] OTHER -> Raises(next, in) = 0

ToolFiles(files, tree, next, in) ==
    IF ~ToolWrites(next, in) THEN files
    ELSE IF next = "execute" THEN WriteProgress(files, tree)
    ELSE Mkdir(files, tree)

\* The execute tool returns after it ran the scripts it generated from the
\* plans; each script calls load_credentials when it starts
RunsScripts(s, in) ==
    s.next = "execute" /\ in.out # "raise" /\ s.files # {}

\* One iteration of `async for event in agent_app.astream(initial_state)`:
\* the graph runs its next superstep, then the loop body handles the
\* events of that superstep; an exception goes to the except clause and
\* on to the final save
run_agent_task_step(r) ==
    /\ UNCHANGED others
    /\ up /\ task[r].kind = "agent" /\ task[r].pc = "stream"
    /\ graph[r].next # "END"
    /\ UNCHANGED <<nextId, env>>
    /\ \E in \in ToolInputs(graph[r].next) :
         /\ hist[r].raised + Raises(graph[r].next, in) <= env.raises
         /\ env.failing \/ in.out \notin {"exit1", "no_success"}
         /\ fs' = ToolFiles(fs, task[r].fs_project_path, graph[r].next, in)
         /\ LET res == Superstep(graph[r], in)
                seen == Later([hist EXCEPT ![r] = Observe(@, graph[r].next, in)], r)
                wrote == IF ToolWrites(graph[r].next, in)
                         THEN NoteWrote(seen, r, task[r].fs_project_path)
                         ELSE seen
                obs == IF RunsScripts(graph[r], in)
                       THEN [wrote EXCEPT ![r].loaded =
                               load_credentials(fs, task[r].fs_project_path)]
                       ELSE wrote
            IN  \E f \in SaveFaults(Len(res.events)), w2 \in WriteOutcomes :
                  LET h == HandleEvents(RUNS, disk, r, res.events, 1, f)
                      failed == [h.runs EXCEPT ![r] = MarkFailed(@)]
                      obsf == [obs EXCEPT ![r].save_failed = @ \/ (f.w = "raise")]
                  IN  CASE h.result = "crash" ->
                             /\ w2 = "ok"
                             /\ Dies(h.disk, TRUE, h.before, h.after, obs)
                        [] h.result = "ok" ->
                             /\ w2 = "ok"
                             /\ Lives(h.runs, h.disk)
                             /\ graph' = [graph EXCEPT ![r] = res.state]
                             /\ hist' = obs
                             /\ UNCHANGED task
                        [] h.runs[r] = NoRun ->
                             \* KeyError, and again in the except clause
                             /\ w2 = "ok"
                             /\ Lives(h.runs, h.disk)
                             /\ graph' = [graph EXCEPT ![r] = res.state]
                             /\ hist' = obs
                             /\ task' = [task EXCEPT ![r] = Dead(r)]
                        [] OTHER ->
                             /\ graph' = [graph EXCEPT ![r] = res.state]
                             /\ SaveAndGo(failed, h.disk, w2, r, Done(r), Dead(r),
                                          obsf)

\* The stream is exhausted: the end of the try block and the final save
run_agent_task_finish(r) ==
    /\ UNCHANGED others
    /\ up /\ task[r].kind = "agent" /\ task[r].pc = "stream"
    /\ graph[r].next = "END"
    /\ UNCHANGED <<nextId, env, graph, fs>>
    /\ IF RUNS[r] = NoRun
       THEN /\ Lives(RUNS, disk)
            /\ task' = [task EXCEPT ![r] = Dead(r)]
            /\ UNCHANGED hist
       ELSE \E w \in WriteOutcomes :
              SaveAndGo([RUNS EXCEPT ![r] = MarkCompleted(@)], disk, w, r,
                        Done(r), Dead(r), SaveFailed(r, w))

---------------------------------------------------------------------------
(* run_scenarios_task *)

\* What execute_scenario may answer
ScenarioResults == IF env.failing THEN {"passed", "failed"} ELSE {"passed"}

\* run_scenarios_task: the outer except clause and the final save
ScenarioRunFails(r, w) ==
    IF RUNS[r] = NoRun
    THEN /\ w = "ok"
         /\ Lives(RUNS, disk)
         /\ task' = [task EXCEPT ![r] = Dead(r)]
         /\ UNCHANGED hist
    ELSE SaveAndGo([RUNS EXCEPT ![r] = MarkFailed(@)], disk, w, r,
                   Done(r), Dead(r), SaveFailed(r, w))

\* From the start of the task to the launch of the browser
run_scenarios_task_begin(r) ==
    /\ UNCHANGED others
    /\ up /\ task[r].kind = "scenario_run" /\ task[r].pc = "queued"
    /\ UNCHANGED <<nextId, env, graph, fs>>
    /\ IF RUNS[r] = NoRun
       THEN /\ Lives(RUNS, disk)
            /\ task' = [task EXCEPT ![r] = Dead(r)]
            /\ UNCHANGED hist
       ELSE \E w \in WriteOutcomes :
              SaveAndGo([RUNS EXCEPT ![r] = MarkRunning(@)], disk, w, r,
                        [task[r] EXCEPT !.pc = "launch"], Dead(r),
                        SaveFailed(r, w))

\* auth_scenario: the scenario the first scenario with a depends_on names,
\* when it is among the scenarios to run; 0 for None
AuthScenario(scs) ==
    LET deps == SelectSeq(scs, LAMBDA sc : sc.depends_on # 0)
    IN  IF deps = <<>> THEN 0
        ELSE IF \E k \in 1..Len(scs) : scs[k].id = deps[1].depends_on
             THEN deps[1].depends_on
             ELSE 0

\* The index of the next scenario of the loop from index i on: the loop
\* passes over auth_scenario ("continue")
RECURSIVE NextIndex(_, _, _)
NextIndex(scs, i, auth) ==
    IF i > Len(scs) THEN i
    ELSE IF scs[i].id = auth THEN NextIndex(scs, i + 1, auth)
    ELSE i

\* results[id] = result: a dict in insertion order
SetResult(results, id, status) ==
    IF \E k \in 1..Len(results) : results[k].id = id
    THEN [k \in 1..Len(results) |->
            IF results[k].id = id THEN [id |-> id, status |-> status]
            ELSE results[k]]
    ELSE Append(results, [id |-> id, status |-> status])

\* async_playwright(), chromium.launch, new_context: they succeed, or raise
\* into the outer except clause
run_scenarios_task_launch(r) ==
    /\ UNCHANGED others
    /\ up /\ task[r].kind = "scenario_run" /\ task[r].pc = "launch"
    /\ UNCHANGED <<nextId, env, graph>>
    /\ \/ LET auth == AuthScenario(task[r].scenarios)
          IN  /\ Lives(RUNS, disk)
              /\ task' = [task EXCEPT ![r] =
                            [@ EXCEPT !.pc = IF auth = 0 THEN "scenarios" ELSE "auth",
                                      !.i = NextIndex(task[r].scenarios, 1, auth),
                                      !.auth = auth]]
              \* record_video_dir = ./temp_runs/<run_id>/videos
              /\ fs' = Mkdir(fs, TempRun(r))
              /\ hist' = NoteWrote(hist, r, TempRun(r))
       \/ /\ env.browser
          /\ UNCHANGED fs
          /\ \E w \in WriteOutcomes : ScenarioRunFails(r, w)

\* "Run auth scenario first if needed": its result goes to results only
run_scenarios_task_auth(r) ==
    /\ UNCHANGED others
    /\ up /\ task[r].kind = "scenario_run" /\ task[r].pc = "auth"
    /\ UNCHANGED <<nextId, env, graph, fs>>
    /\ \/ \* context.new_page() raises
          /\ env.browser
          /\ \E w \in WriteOutcomes : ScenarioRunFails(r, w)
       \/ \E res \in ScenarioResults :
            /\ Lives(RUNS, disk)
            /\ task' = [task EXCEPT ![r] =
                          [@ EXCEPT !.pc = "scenarios",
                                    !.results = SetResult(@, task[r].auth, res)]]
            /\ UNCHANGED hist

\* A variant of SetResults that also marks the run completed, as a loop that
\* reported completion with each scenario would
SetResultsAndComplete(rec, results) ==
    [rec EXCEPT !.results = results, !.status = "completed"]

\* The record after RUNS[run_id]["results"] = results
SetResults(rec, results) == [rec EXCEPT !.results = results]

\* One iteration of `for scenario in scenarios` that runs a scenario
run_scenarios_task_step(r) ==
    /\ UNCHANGED others
    /\ up /\ task[r].kind = "scenario_run" /\ task[r].pc = "scenarios"
    /\ task[r].i <= Len(task[r].scenarios)
    /\ UNCHANGED <<nextId, env, graph, fs>>
    /\ \/ \* context.new_page() raises
          /\ env.browser
          /\ \E w \in WriteOutcomes : ScenarioRunFails(r, w)
       \/ \E res \in ScenarioResults, w \in WriteOutcomes :
            LET id      == task[r].scenarios[task[r].i].id
                results == SetResult(task[r].results, id, res)
                \* the inner except clause: results[id] = failed
                caught  == SetResult(task[r].results, id, "failed")
                j       == NextIndex(task[r].scenarios, task[r].i + 1, task[r].auth)
                next    == [task[r] EXCEPT !.i = j, !.results = results]
                nextc   == [task[r] EXCEPT !.i = j, !.results = caught]
            IN  IF RUNS[r] = NoRun
                THEN /\ w = "ok"
                     /\ Lives(RUNS, disk)
                     /\ task' = [task EXCEPT ![r] = nextc]
                     /\ UNCHANGED hist
                ELSE IF w = "raise"
                THEN \* results is RUNS[run_id]["results"] by now
                     /\ Lives([RUNS EXCEPT ![r] = SetResults(@, caught)], disk)
                     /\ task' = [task EXCEPT ![r] = nextc]
                     /\ hist' = SaveFailed(r, w)
                ELSE SaveAndGo([RUNS EXCEPT ![r] = SetResults(@, results)],
                               disk, w, r, next, next, Later(hist, r))

\* RUNS[run_id]["status"] = "completed" with results and completed_at
MarkScenariosCompleted(rec, results) ==
    [rec EXCEPT !.status = "completed", !.results = results,
                !.completed_at = TRUE]

\* The loop is over: browser.close(), the end of the try block, final save
run_scenarios_task_finish(r) ==
    /\ UNCHANGED others
    /\ up /\ task[r].kind = "scenario_run" /\ task[r].pc = "scenarios"
    /\ task[r].i > Len(task[r].scenarios)
    /\ UNCHANGED <<nextId, env, graph, fs>>
    /\ \E w \in WriteOutcomes :
         IF RUNS[r] = NoRun
         THEN ScenarioRunFails(r, w)
         ELSE SaveAndGo([RUNS EXCEPT ![r] =
                            MarkScenariosCompleted(@, task[r].results)],
                        disk, w, r, Done(r), Dead(r), SaveFailed(r, w))

---------------------------------------------------------------------------
(* Cancellation, death and restart of the process *)

Awaiting == {"stream", "launch", "auth", "scenarios"}

\* The event loop cancels the task: CancelledError is raised at its await.
\* It is no Exception, so no except clause of the task catches it and the
\* final save is not reached.
cancel(r) ==
    /\ UNCHANGED others
    /\ up /\ env.faults /\ task[r].pc \in Awaiting
    /\ task' = [task EXCEPT ![r] = Dead(r)]
    /\ hist' = [hist EXCEPT ![r].cancelled = TRUE]
    /\ UNCHANGED <<RUNS, disk, up, nextId, graph, env, boot, fs>>

\* The process is killed outside save_runs
crash ==
    /\ UNCHANGED others
    /\ up /\ env.faults
    /\ Dies(disk, FALSE, EmptyDoc, EmptyDoc, hist)
    /\ UNCHANGED <<nextId, env, fs>>

\* The module is loaded again: RUNS = load_runs()
restart ==
    /\ UNCHANGED others
    /\ ~up
    /\ up' = TRUE
    /\ RUNS' = load_runs(disk)
    /\ boot' = [boot EXCEPT !.phase = "restarted"]
    /\ UNCHANGED <<disk, nextId, task, graph, env, hist, fs>>

---------------------------------------------------------------------------
(* The Explorer's app map and the Planner: explorer.py, planner.py *)

\* The pages _extract_page_info can return, as far as the Planner reads
\* them: the type, requires_auth, and whether the page has an element the
\* Planner writes one more scenario for (a button of the dashboard, a link
\* of the landing page, a form of a settings or general page)
PageTypes ==
    {"login", "register", "password_reset", "dashboard", "landing",
     "profile", "settings", "create", "edit", "list", "detail", "general"}

Pages ==
    { pg \in [type : PageTypes, requires_auth : BOOLEAN, extra : BOOLEAN] :
        /\ pg.type \in {"login", "register", "password_reset", "landing", "detail"}
              => ~pg.requires_auth
        /\ pg.type \notin {"dashboard", "landing", "settings", "general"}
              => ~pg.extra }

\* _group_into_modules: module_mapping, in its order
ModuleOrder == <<"auth", "dashboard", "profile", "crud", "general">>

ModulePageTypes ==
    [ auth      |-> {"login", "register", "password_reset"},
      dashboard |-> {"dashboard", "landing"},
      profile   |-> {"profile", "settings"},
      crud      |-> {"create", "edit", "list", "detail"},
      general   |-> {"general"} ]

\* _group_into_modules: the modules that have a page, each with its pages
\* in the order of discovery and requires_auth = any(...)
group_into_modules(pages) ==
    LET module(name) ==
            LET module_pages == SelectSeq(pages, LAMBDA pg : pg.type \in ModulePageTypes[name])
            IN  [ name |-> name, pages |-> module_pages,
                  requires_auth |->
                      \E k \in 1..Len(module_pages) : module_pages[k].requires_auth ]
        all == [k \in 1..Len(ModuleOrder) |-> module(ModuleOrder[k])]
    IN  SelectSeq(all, LAMBDA m : m.pages # <<>>)

\* The decimal digits of n
RECURSIVE Digits(_)
Digits(n) == IF n < 10 THEN <<n>> ELSE Append(Digits(n \div 10), n % 10)

\* f"{n:03d}": the digits of n, with zeros in front up to three digits
Format03d(n) ==
    LET d == Digits(n)
        pad == IF Len(d) >= 3 THEN 0 ELSE 3 - Len(d)
    IN  [k \in 1..(pad + Len(d)) |-> IF k <= pad THEN 0 ELSE d[k - pad]]

\* A scenario id f"{prefix}_{n:03d}", and None
ScenarioId(prefix, n) == [prefix |-> prefix, digits |-> Format03d(n)]
None == [prefix |-> "None", digits |-> <<>>]

\* The literal "auth_001"
Auth001 == [prefix |-> "auth", digits |-> <<0, 0, 1>>]

\* PlannerAgent.__init__, for the app map with the modules `modules`
NewPlanner(modules) ==
    [ pc |-> "modules", modules |-> modules, m |-> 1,
      scenarios |-> <<>>, scenario_counter |-> 0, test_plan |-> <<>> ]

\* No PlannerAgent
NoPlanner == [NewPlanner(<<>>) EXCEPT !.pc = "idle"]

\* _next_id, then self.scenarios.append(TestScenario(id = ..., ...))
next_id(pl, prefix) == ScenarioId(prefix, pl.scenario_counter + 1)

AppendScenario(pl, sc) ==
    [ pl EXCEPT
        !.scenario_counter = @ + 1,
        !.scenarios = Append(@, [ id |-> next_id(pl, sc.prefix),
                                  module |-> sc.module, type |-> sc.type,
                                  depends_on |-> sc.depends_on ]) ]

RECURSIVE AppendScenarios(_, _)
AppendScenarios(pl, scs) ==
    IF scs = <<>> THEN pl
    ELSE AppendScenarios(AppendScenario(pl, Head(scs)), Tail(scs))

\* TestScenario(...) but for its id
Scenario(prefix, module, type, depends_on) ==
    [prefix |-> prefix, module |-> module, type |-> type, depends_on |-> depends_on]

RECURSIVE Flatten(_)
Flatten(ss) == IF ss = <<>> THEN <<>> ELSE Head(ss) \o Flatten(Tail(ss))

\* depends_on = "auth_001" if requires_auth else None
DependsOn(requires_auth) == IF requires_auth THEN Auth001 ELSE None

\* A variant of AuthPage that writes the edge case of a login page before
\* its error path
AuthPageEdgeCaseFirst(pg) ==
    CASE pg.type = "login" ->
            << Scenario("auth", "auth", "happy_path", None),
               Scenario("auth", "auth", "edge_case", None),
               Scenario("auth", "auth", "error_path", None),
               Scenario("auth", "auth", "security", None) >>
      [] pg.type = "register" ->
            << Scenario("auth", "auth", "happy_path", None) >>
      [] OTHER -> <<>>

\* _generate_auth_scenarios: the scenarios of one page
AuthPage(pg) ==
    CASE pg.type = "login" ->
            << Scenario("auth", "auth", "happy_path", None),
               Scenario("auth", "auth", "error_path", None),
               Scenario("auth", "auth", "edge_case", None),
               Scenario("auth", "auth", "security", None) >>
      [] pg.type = "register" ->
            << Scenario("auth", "auth", "happy_path", None) >>
      [] OTHER -> <<>>

\* _generate_dashboard_scenarios: the scenarios of one page
DashboardPage(pg, depends_on) ==
    LET dep == IF pg.type = "dashboard" THEN depends_on ELSE None
        one == Scenario("dash", "dashboard", "happy_path", dep)
    IN  IF pg.type \in {"dashboard", "landing"}
        THEN <<one>> \o (IF pg.extra THEN <<one>> ELSE <<>>)
        ELSE <<>>

\* _generate_profile_scenarios: the scenarios of one page
ProfilePage(pg) ==
    LET one == Scenario("profile", "profile", "happy_path", DependsOn(pg.requires_auth))
    IN  CASE pg.type = "settings" -> <<one>> \o (IF pg.extra THEN <<one>> ELSE <<>>)
          [] pg.type = "profile" -> <<one>>
          [] OTHER -> <<>>

\* _generate_crud_scenarios: the scenarios of one page
CrudPage(pg) ==
    LET dep == DependsOn(pg.requires_auth)
    IN  CASE pg.type = "create" ->
                << Scenario("crud", "crud", "happy_path", dep),
                   Scenario("crud", "crud", "edge_case", dep) >>
          [] pg.type \in {"list", "edit"} ->
                << Scenario("crud", "crud", "happy_path", dep) >>
          [] OTHER -> <<>>

\* _generate_general_scenarios: the scenarios of one page
GeneralPage(pg, module_name) ==
    LET one == Scenario("gen", module_name, "happy_path", DependsOn(pg.requires_auth))
    IN  <<one>> \o (IF pg.extra THEN <<one>> ELSE <<>>)

\* The module generate_scenarios hands to a generator next
CurrentModule == planner.modules[planner.m]

\* One pass of the loop of generate_scenarios for the module `name`,
\* writing the scenarios `scs`
Generate(name, scs) ==
    /\ planner.pc = "modules" /\ planner.m <= Len(planner.modules)
    /\ IF name = "general"
       THEN CurrentModule.name \notin {"auth", "dashboard", "profile", "crud"}
       ELSE CurrentModule.name = name
    /\ planner' = [AppendScenarios(planner, scs) EXCEPT !.m = @ + 1]
    /\ UNCHANGED <<service, executor, crawl, scenario_result>>

generate_auth_scenarios ==
    /\ planner.pc = "modules" /\ planner.m <= Len(planner.modules)
    /\ Generate("auth",
           Flatten([k \in 1..Len(CurrentModule.pages) |->
                       AuthPage(CurrentModule.pages[k])]))

generate_dashboard_scenarios ==
    /\ planner.pc = "modules" /\ planner.m <= Len(planner.modules)
    /\ Generate("dashboard",
           Flatten([k \in 1..Len(CurrentModule.pages) |->
                       DashboardPage(CurrentModule.pages[k],
                                     DependsOn(CurrentModule.requires_auth))]))

generate_profile_scenarios ==
    /\ planner.pc = "modules" /\ planner.m <= Len(planner.modules)
    /\ Generate("profile",
           Flatten([k \in 1..Len(CurrentModule.pages) |->
                       ProfilePage(CurrentModule.pages[k])]))

generate_crud_scenarios ==
    /\ planner.pc = "modules" /\ planner.m <= Len(planner.modules)
    /\ Generate("crud",
           Flatten([k \in 1..Len(CurrentModule.pages) |->
                       CrudPage(CurrentModule.pages[k])]))

generate_general_scenarios ==
    /\ planner.pc = "modules" /\ planner.m <= Len(planner.modules)
    /\ Generate("general",
           Flatten([k \in 1..Len(CurrentModule.pages) |->
                       GeneralPage(CurrentModule.pages[k], CurrentModule.name)]))

\* "Group scenarios by module": the modules in the order of their first
\* scenario, each with its scenarios in the order of emission
RECURSIVE ModulesOf(_)
ModulesOf(scs) ==
    IF scs = <<>> THEN <<>>
    ELSE LET rest == ModulesOf(SelectSeq(Tail(scs), LAMBDA sc : sc.module # Head(scs).module))
         IN  <<Head(scs).module>> \o rest

GroupByModule(scs) ==
    LET names == ModulesOf(scs)
    IN  [k \in 1..Len(names) |->
            [ name |-> names[k],
              scenarios |-> SelectSeq(scs, LAMBDA sc : sc.module = names[k]) ]]

\* generate_scenarios: after the loop, the test plan is returned
generate_scenarios ==
    /\ planner.pc = "modules" /\ planner.m > Len(planner.modules)
    /\ planner' = [planner EXCEPT !.pc = "done",
                                  !.test_plan = GroupByModule(planner.scenarios)]
    /\ UNCHANGED <<service, executor, crawl, scenario_result>>

\* The page lists an exploration can end with
RECURSIVE PageLists(_)
PageLists(n) ==
    IF n = 0 THEN {<<>>}
    ELSE LET shorter == PageLists(n - 1)
         IN  shorter \cup {Append(ps, pg) : ps \in shorter, pg \in Pages}

---------------------------------------------------------------------------
(* The execute tool and the scenario subprocess: mcp_server/server.py *)

\* The ids of the scenarios of the plan files
TestIds == 1..NTests

\* The result of a scenario
TerminalStatus == {"passed", "failed", "skipped"}

\* The words that keep a scenario out of the API test mode
UiWords == {"login", "form", "ui", "click", "fill"}

\* The methods of the API test mode
ApiMethods == {"GET", "POST", "PUT", "DELETE", "PATCH"}

\* What a scenario of a plan file may be: an endpoint with a method and a
\* plain name, an endpoint with a method and a name such as "Valid Login",
\* or a scenario of the pages.  words are the words of UiWords that
\* test_name.lower() contains.
ScenarioKinds ==
    { [endpoint |-> TRUE,  method |-> "GET",  words |-> {}],
      [endpoint |-> TRUE,  method |-> "POST", words |-> {"login"}],
      [endpoint |-> FALSE, method |-> "none", words |-> {}] }

\* all_scenarios: the scenarios of the plan files, with distinct ids
TestPlans ==
    UNION { { [k \in 1..n |-> [id |-> k, endpoint |-> kinds[k].endpoint,
                               method |-> kinds[k].method,
                               words |-> kinds[k].words]] :
                kinds \in [1..n -> ScenarioKinds] } : n \in 0..NTests }

\* has_endpoint and scenario.get("method") in [...]: the scenario runs as
\* an API test, with requests; every other scenario runs as a UI test
ApiTest(scenario) ==
    LET has_endpoint == scenario.endpoint /\ scenario.words \cap UiWords = {}
    IN  has_endpoint /\ scenario.method \in ApiMethods

\* response.status_code of an API test, NoResponse when requests raised
StatusCodes == {200, 500}
NoResponse == 0

\* run_api_test: passed when the response is below 500, failed otherwise
\* and on every exception
ApiStatus(status_code) ==
    IF status_code # NoResponse /\ status_code < 500 THEN "passed" ELSE "failed"

\* No entry of progress["results"], no entry of all_results
NoResult == [status |-> "none", message |-> ""]

\* execution_progress.json before the tool has written it
NoProgress ==
    [readable |-> FALSE, status |-> "none", current_test |-> 0,
     completed |-> <<>>, results |-> [t \in TestIds |-> NoResult]]

\* initial_progress: every scenario pending, nothing completed
initial_progress(all_scenarios) ==
    [readable |-> TRUE, status |-> "running", current_test |-> 0,
     completed |-> <<>>,
     results |-> [t \in TestIds |->
                    IF \E k \in 1..Len(all_scenarios) : all_scenarios[k].id = t
                    THEN [status |-> "pending", message |-> ""]
                    ELSE NoResult]]

\* The file after open(PROGRESS_FILE, "w") of a writer that was killed
\* before json.dump finished: json.load raises on it
TornProgress == [NoProgress EXCEPT !.status = "torn"]

\* test_id in progress["completed"]
Completed(progress, test_id) ==
    \E k \in 1..Len(progress.completed) : progress.completed[k] = test_id

\* update_progress of the generated script: the exception of json.load is
\* swallowed, the id is appended to completed only when it is not in it
update_progress(progress, test_id, status) ==
    IF ~progress.readable THEN progress
    ELSE [progress EXCEPT
            !.current_test = IF status = "running" THEN test_id ELSE 0,
            !.results[test_id] = [status |-> status, message |-> "test"],
            !.completed = IF status \in TerminalStatus /\ ~Completed(progress, test_id)
                          THEN Append(@, test_id) ELSE @]

\* The tool before a scenario: progress["results"][test_id]["status"] = "running"
ShowCurrentTest(progress, test_id) ==
    IF ~progress.readable THEN progress
    ELSE [progress EXCEPT !.current_test = test_id,
                          !.results[test_id].status = "running"]

\* except subprocess.TimeoutExpired: the entry of the scenario is replaced
\* and its id appended to completed; a file that cannot be read is left
HandleTimeout(progress, test_id) ==
    IF ~progress.readable THEN progress
    ELSE [progress EXCEPT
            !.results[test_id] = [status |-> "failed", message |-> "Timeout"],
            !.completed = Append(@, test_id)]

\* 5. Final progress update
FinalProgress(progress) ==
    IF ~progress.readable THEN progress
    ELSE [progress EXCEPT !.status = "completed", !.current_test = 0]

\* The exit code that counts a skipped scenario as a failure
CompositeExitCodePassedOnly(all_results) ==
    IF \A t \in TestIds : all_results[t] \in {"none", "passed"} THEN 0 ELSE 1

\* "exit_code": 0 if failed == 0 else 1
CompositeExitCode(all_results) ==
    LET failed == Cardinality({t \in TestIds : all_results[t] = "failed"})
    IN  IF failed = 0 THEN 0 ELSE 1

\* The result of a scenario from the stdout of its subprocess
ResultFromStdout(stdout) ==
    IF stdout = "passed" THEN "passed"
    ELSE IF stdout = "failed" THEN "failed"
    ELSE IF stdout = "skipped" THEN "skipped"
    ELSE "passed"

\* No subprocess
NoChild == [pc |-> "none", status |-> "none", stdout |-> "none"]

\* No output of the tool yet
NoOutput == [exit_code |-> -1, tests_executed |-> 0]

\* One call of the tool for the scenarios all_scenarios.  mode is the test
\* code generated for the scenario.  wrote, fate, launched, browser and
\* response are observations: the statuses written to
\* progress["results"][id] in their order, what happened to the subprocess
\* of the scenario, the scenarios in the order of their subprocess.run,
\* whether the subprocess launched chromium (with record_video_dir, and
\* with the screenshots that follow), and the status code of the request
NewExecutor(all_scenarios) ==
    [pc |-> "start", all_scenarios |-> all_scenarios, i |-> 1,
     all_results |-> [t \in TestIds |-> "none"],
     progress |-> NoProgress, child |-> NoChild, output |-> NoOutput,
     wrote |-> [t \in TestIds |-> <<>>],
     fate |-> [t \in TestIds |-> "none"],
     launched |-> <<>>,
     mode |-> [t \in TestIds |-> "none"],
     browser |-> [t \in TestIds |-> FALSE],
     response |-> [t \in TestIds |-> -1]]

NoExecutor == [NewExecutor(<<>>) EXCEPT !.pc = "idle"]

\* The scenario of the current iteration of the loop
test_id == executor.all_scenarios[executor.i].id

\* The statuses written, after a write that made the file `progress`
Wrote(progress, status) ==
    IF progress.readable
    THEN [executor.wrote EXCEPT ![test_id] = Append(@, status)]
    ELSE executor.wrote

\* 1. to 3.: the plans are loaded and the initial progress is written
testsprite_generate_code_and_execute ==
    /\ executor.pc = "start"
    /\ executor' =
          [executor EXCEPT
              !.pc = "next",
              !.progress = initial_progress(executor.all_scenarios),
              !.wrote = [t \in TestIds |->
                           IF initial_progress(executor.all_scenarios).results[t].status = "pending"
                           THEN <<"pending">> ELSE <<>>]]
    /\ UNCHANGED <<service, planner, crawl, scenario_result>>

\* 4. one iteration up to subprocess.run: the test code is chosen and
\* written, the current test is shown, then the subprocess starts, or
\* subprocess.run raises (except Exception)
subprocess_run ==
    /\ executor.pc = "next" /\ executor.i <= Len(executor.all_scenarios)
    /\ LET progress == ShowCurrentTest(executor.progress, test_id)
           shown == [executor EXCEPT
                        !.mode[test_id] =
                            IF ApiTest(executor.all_scenarios[executor.i])
                            THEN "api" ELSE "ui",
                        !.progress = progress,
                        !.wrote = Wrote(progress, "running")]
       IN  \E launches \in BOOLEAN :
              executor' =
                 IF launches
                 THEN [shown EXCEPT !.pc = "child",
                                    !.child = [NoChild EXCEPT !.pc = "start"],
                                    !.fate[test_id] = "running",
                                    !.launched = Append(@, test_id)]
                 ELSE [shown EXCEPT !.all_results[test_id] = "failed",
                                    !.fate[test_id] = "not launched",
                                    !.i = @ + 1]
    /\ UNCHANGED <<service, planner, crawl, scenario_result>>

\* The subprocess: update_progress("running", "Starting test...")
run_test_start ==
    /\ executor.pc = "child" /\ executor.child.pc = "start"
    /\ LET progress == update_progress(executor.progress, test_id, "running")
       IN  executor' =
              [executor EXCEPT
                  !.progress = progress,
                  !.wrote = Wrote(progress, "running"),
                  !.child.pc = IF executor.mode[test_id] = "api"
                               THEN "test" ELSE "page"]
    /\ UNCHANGED <<service, planner, crawl, scenario_result>>

\* The subprocess of a UI test: the browser is launched, outside of any
\* try, and update_progress("running", "Page loaded") after the page
run_test_page ==
    /\ executor.pc = "child" /\ executor.child.pc = "page"
    /\ \E browser \in BOOLEAN :
          executor' =
             IF browser
             THEN LET progress == update_progress(executor.progress, test_id, "running")
                  IN  [executor EXCEPT !.progress = progress,
                                       !.wrote = Wrote(progress, "running"),
                                       !.browser[test_id] = TRUE,
                                       !.child.pc = "test"]
             ELSE [executor EXCEPT !.child.pc = "exited"]
    /\ UNCHANGED <<service, planner, crawl, scenario_result>>

\* The subprocess: update_progress(status, message) with the result of the
\* test; the status of an API test is the one of its response
run_test_result ==
    /\ executor.pc = "child" /\ executor.child.pc = "test"
    /\ \E status \in TerminalStatus, status_code \in StatusCodes \cup {NoResponse} :
          /\ IF executor.mode[test_id] = "api"
             THEN status = ApiStatus(status_code)
             ELSE status_code = NoResponse
          /\ LET progress == update_progress(executor.progress, test_id, status)
             IN  executor' =
                    [executor EXCEPT !.progress = progress,
                                     !.wrote = Wrote(progress, status),
                                     !.response[test_id] =
                                         IF executor.mode[test_id] = "api"
                                         THEN status_code ELSE @,
                                     !.child.pc = "print",
                                     !.child.status = status]
    /\ UNCHANGED <<service, planner, crawl, scenario_result>>

\* The subprocess: print(f"[{status.upper()}] ..."), and the process ends
run_test_print ==
    /\ executor.pc = "child" /\ executor.child.pc = "print"
    /\ executor' = [executor EXCEPT !.child.pc = "exited",
                                    !.child.stdout = executor.child.status]
    /\ UNCHANGED <<service, planner, crawl, scenario_result>>

\* subprocess.run returns: the result is read from stdout
subprocess_returns ==
    /\ executor.pc = "child" /\ executor.child.pc = "exited"
    /\ executor' =
          [executor EXCEPT
              !.all_results[test_id] = ResultFromStdout(executor.child.stdout),
              !.fate[test_id] = "returned",
              !.child = NoChild,
              !.pc = "next",
              !.i = @ + 1]
    /\ UNCHANGED <<service, planner, crawl, scenario_result>>

\* subprocess.TimeoutExpired: the subprocess is killed wherever it is, in
\* the middle of a write of the progress file too, and the handler runs
subprocess_timeout ==
    /\ executor.pc = "child"
    /\ executor.child.pc \in {"start", "page", "test", "print"}
    /\ \E mid_write \in BOOLEAN :
          /\ mid_write => /\ executor.child.pc \in {"start", "page", "test"}
                          /\ executor.progress.readable
          /\ LET killed == IF mid_write THEN TornProgress ELSE executor.progress
                 progress == HandleTimeout(killed, test_id)
             IN  executor' =
                    [executor EXCEPT
                        !.all_results[test_id] = "failed",
                        !.progress = progress,
                        !.wrote = Wrote(progress, "failed"),
                        !.fate[test_id] = "timeout",
                        !.child = NoChild,
                        !.pc = "next",
                        !.i = @ + 1]
    /\ UNCHANGED <<service, planner, crawl, scenario_result>>

\* After the loop: the final progress update and the output
execute_output ==
    /\ executor.pc = "next" /\ executor.i > Len(executor.all_scenarios)
    /\ executor' =
          [executor EXCEPT
              !.pc = "done",
              !.progress = FinalProgress(executor.progress),
              !.output = [exit_code |-> CompositeExitCode(executor.all_results),
                          tests_executed |-> Len(executor.all_scenarios)]]
    /\ UNCHANGED <<service, planner, crawl, scenario_result>>

---------------------------------------------------------------------------
(* The crawl of the Explorer: explorer.py, explore and _explore_page *)

\* The URLs of the links of the site; the last one is on another host
Urls == 1..NUrls

\* self.base_url
BaseUrl == 1

\* urlparse(url).netloc, and self.domain
netloc(url) == IF url = NUrls THEN "other" ELSE "host"
domain == netloc(BaseUrl)

\* What _extract_page_info returns for the page at `url`, as far as the
\* crawl and the grouping read it: a login page or a general page
PageInfos(url) ==
    { [url |-> url, type |-> type, requires_auth |-> FALSE] :
        type \in {"login", "general"} }

\* _is_auth_page
is_auth_page(page_info) == page_info.type \in {"login", "register", "password_reset"}

\* ExplorerAgent.__init__ and the call explore(max_pages).  stack holds,
\* for every _explore_page that is in its loop, the links it has not
\* followed yet; gotos counts the calls of page.goto and capped tells that
\* a URL was refused because max_pages URLs were visited, foreign that a
\* URL of another host was refused, base_response what page.goto met at
\* the base URL (observations); status is PLANS[explore_id]["status"]
NewCrawl(max_pages) ==
    [pc |-> "explore", max_pages |-> max_pages, visited_urls |-> {},
     pages |-> <<>>, modules |-> <<>>, auth_pages |-> <<>>, stack |-> <<>>,
     gotos |-> 0, capped |-> FALSE, total_pages |-> 0,
     foreign |-> FALSE, base_response |-> "not called",
     status |-> "exploring"]

NoCrawl == [NewCrawl(0) EXCEPT !.pc = "idle", !.status = "none"]

\* _explore_page without the test of the host
ExplorePageAnyHost(c, url, response, page_info, links) ==
    IF url \in c.visited_urls \/ Cardinality(c.visited_urls) >= c.max_pages
    THEN [c EXCEPT !.capped = @ \/ url \notin c.visited_urls]
    ELSE LET gone == [c EXCEPT !.visited_urls = @ \cup {url}, !.gotos = @ + 1,
                               !.foreign = @ \/ netloc(url) # domain]
         IN  IF response # "ok" THEN gone
             ELSE [gone EXCEPT
                     !.pages = Append(@, page_info),
                     !.auth_pages = IF is_auth_page(page_info)
                                    THEN Append(@, url) ELSE @,
                     !.stack = Append(@, links)]

\* _explore_page that marks a URL as visited only when page.goto answered
ExplorePageMarkedLate(c, url, response, page_info, links) ==
    IF url \in c.visited_urls \/ Cardinality(c.visited_urls) >= c.max_pages
    THEN [c EXCEPT !.capped = @ \/ url \notin c.visited_urls]
    ELSE IF netloc(url) # domain THEN [c EXCEPT !.foreign = TRUE]
    ELSE LET gone == [c EXCEPT !.gotos = @ + 1]
         IN  IF response # "ok" THEN gone
             ELSE [gone EXCEPT
                     !.visited_urls = @ \cup {url},
                     !.pages = Append(@, page_info),
                     !.auth_pages = IF is_auth_page(page_info)
                                    THEN Append(@, url) ELSE @,
                     !.stack = Append(@, links)]

\* _explore_page with a guard that lets one more URL in
ExplorePageOneMore(c, url, response, page_info, links) ==
    IF url \in c.visited_urls \/ Cardinality(c.visited_urls) > c.max_pages
    THEN [c EXCEPT !.capped = @ \/ url \notin c.visited_urls]
    ELSE IF netloc(url) # domain THEN [c EXCEPT !.foreign = TRUE]
    ELSE LET gone == [c EXCEPT !.visited_urls = @ \cup {url}, !.gotos = @ + 1]
         IN  IF response # "ok" THEN gone
             ELSE [gone EXCEPT
                     !.pages = Append(@, page_info),
                     !.auth_pages = IF is_auth_page(page_info)
                                    THEN Append(@, url) ELSE @,
                     !.stack = Append(@, links)]

\* _explore_page(page, url, max_pages) up to its loop over the links:
\* the guard, the mark, page.goto with its response (a response, None, or
\* an exception), the page information and the links of the page
ExplorePage(c, url, response, page_info, links) ==
    IF url \in c.visited_urls \/ Cardinality(c.visited_urls) >= c.max_pages
    THEN [c EXCEPT !.capped = @ \/ url \notin c.visited_urls]
    ELSE IF netloc(url) # domain THEN [c EXCEPT !.foreign = TRUE]
    ELSE LET gone == [c EXCEPT !.visited_urls = @ \cup {url}, !.gotos = @ + 1]
         IN  IF response # "ok" THEN gone
             ELSE [gone EXCEPT
                     !.pages = Append(@, page_info),
                     !.auth_pages = IF is_auth_page(page_info)
                                    THEN Append(@, url) ELSE @,
                     !.stack = Append(@, links)]

\* What a call of _explore_page can meet at `url`
Responses == {"ok", "none", "raise"}

\* explore: the browser is started, which may raise, and the base URL is
\* explored
explore ==
    /\ crawl.pc = "explore"
    /\ \/ crawl' = [crawl EXCEPT !.pc = "raised"]
       \/ \E response \in Responses, page_info \in PageInfos(BaseUrl),
             links \in SUBSET Urls :
             LET c == ExplorePage(crawl, BaseUrl, response, page_info, links)
             IN  crawl' = [c EXCEPT
                             !.pc = "links",
                             !.base_response = IF BaseUrl \in c.visited_urls
                                               THEN response ELSE @]
    /\ UNCHANGED <<service, planner, executor, scenario_result>>

\* _explore_page: one iteration of the loop over the links of the page
\* (the links of a page in any order)
explore_page ==
    /\ crawl.pc = "links" /\ crawl.stack # <<>>
    /\ LET top == Len(crawl.stack)
       IN  \E full_url \in crawl.stack[top] :
              LET rest == [crawl EXCEPT !.stack[top] = @ \ {full_url}]
              IN  IF full_url \in crawl.visited_urls
                  THEN crawl' = rest
                  ELSE \E response \in Responses,
                          page_info \in PageInfos(full_url),
                          links \in SUBSET Urls :
                          crawl' = ExplorePage(rest, full_url, response,
                                               page_info, links)
    /\ UNCHANGED <<service, planner, executor, scenario_result>>

\* _explore_page returns when no link is left
explore_page_return ==
    /\ crawl.pc = "links" /\ crawl.stack # <<>>
    /\ crawl.stack[Len(crawl.stack)] = {}
    /\ crawl' = [crawl EXCEPT !.stack = SubSeq(@, 1, Len(@) - 1)]
    /\ UNCHANGED <<service, planner, executor, scenario_result>>

\* explore: after the crawl the pages are grouped and the app map returned
explore_return ==
    /\ crawl.pc = "links" /\ crawl.stack = <<>>
    /\ crawl' = [crawl EXCEPT !.pc = "done",
                              !.modules = group_into_modules(crawl.pages),
                              !.total_pages = Len(crawl.pages)]
    /\ UNCHANGED <<service, planner, executor, scenario_result>>

\* run_exploration_task after explore_application: the test plan is
\* generated from the app map and the plan is ready; an exception of
\* explore_application makes it failed
run_exploration_task ==
    /\ crawl.pc \in {"done", "raised"} /\ crawl.status = "exploring"
    /\ crawl' = [crawl EXCEPT
                    !.status = IF crawl.pc = "done" THEN "ready" ELSE "failed"]
    /\ UNCHANGED <<service, planner, executor, scenario_result>>

---------------------------------------------------------------------------
(* execute_scenario: the steps of one scenario (api_server.py) *)

\* The targets of the assert steps: the three the code names, and one of
\* the other predicates of the enum
AssertTargets ==
    {"page_loaded", "url_changed", "error_message_visible", "validation_error"}

\* The steps of a scenario.  selectors is the length of target.split(", ")
\* of a fill or click step, whose selectors are 1..selectors in the order
\* of the list.
StepKinds ==
    {[action |-> "navigate", target |-> "/", selectors |-> 0],
     [action |-> "wait", target |-> "navigation", selectors |-> 0]}
    \cup [action : {"fill", "click"}, target : {"selectors"},
          selectors : 1..NSelectors]
    \cup [action : {"assert"}, target : AssertTargets, selectors : {0}]

StepLists == UNION {[1..n -> StepKinds] : n \in 0..MaxSteps}

StepIndices == 1..MaxSteps

\* Nothing tried in a fill or click step
NoAttempt == [tried |-> <<>>, resolved |-> {}, worked |-> {}]

\* One call of execute_scenario for the steps `steps`.  i is the step of
\* the loop; steps_completed holds the indices of the steps whose
\* description was appended.  attempt and held are observations: for a
\* fill or click step the selectors tried in their order, those of them
\* wait_for_selector resolved and those of them the fill or click worked
\* on; for an assert step whether its predicate was true of the page.
NewScenarioCall(steps) ==
    [pc |-> "steps", steps |-> steps, i |-> 1, status |-> "running",
     error |-> "None", steps_completed |-> <<>>,
     attempt |-> [k \in StepIndices |-> NoAttempt],
     held |-> [k \in StepIndices |-> "not evaluated"]]

NoScenarioCall == [NewScenarioCall(<<>>) EXCEPT !.pc = "idle"]

\* The step of the current iteration
CurrentStep == scenario_result.steps[scenario_result.i]

AtStep(action) ==
    /\ scenario_result.pc = "steps" /\ scenario_result.i <= Len(scenario_result.steps)
    /\ CurrentStep.action = action

\* scenario_result["steps_completed"].append(step["description"])
StepCompleted(sc) ==
    [sc EXCEPT !.steps_completed = Append(@, sc.i), !.i = @ + 1]

\* The except clauses: the scenario is failed, with the message of the
\* exception
StepRaised(sc, message) ==
    [sc EXCEPT !.pc = "returned", !.status = "failed", !.error = message]

\* A loop over the selectors that goes on after a fill or click has worked
RECURSIVE TryAllSelectors(_, _, _, _, _)
TryAllSelectors(n, j, resolves, works, att) ==
    IF j > n THEN att
    ELSE TryAllSelectors(n, j + 1, resolves, works,
            [tried    |-> Append(att.tried, j),
             resolved |-> att.resolved \cup ({j} \cap resolves),
             worked   |-> att.worked \cup ({j} \cap resolves \cap works)])

\* for selector in selectors: wait_for_selector, then fill or click, then
\* break; the bare except goes on with the next selector when
\* wait_for_selector or the fill or click raised.  resolves are the
\* selectors the page has an element for, works those whose element takes
\* the fill or click.
RECURSIVE TrySelectors(_, _, _, _, _)
TrySelectors(n, j, resolves, works, att) ==
    IF j > n THEN att
    ELSE LET tried == Append(att.tried, j)
         IN  IF j \notin resolves
             THEN TrySelectors(n, j + 1, resolves, works,
                               [att EXCEPT !.tried = tried])
             ELSE IF j \notin works
             THEN TrySelectors(n, j + 1, resolves, works,
                               [att EXCEPT !.tried = tried,
                                           !.resolved = @ \cup {j}])
             ELSE [tried |-> tried, resolved |-> att.resolved \cup {j},
                   worked |-> att.worked \cup {j}]

\* action == "navigate": page.goto, which may raise
step_navigate ==
    /\ AtStep("navigate")
    /\ \E loads \in BOOLEAN :
          scenario_result' = IF loads THEN StepCompleted(scenario_result)
                      ELSE StepRaised(scenario_result, "Timeout")
    /\ UNCHANGED <<service, planner, executor, crawl>>

\* action == "fill" or "click" with the selectors of the target
FillOrClick(could_not) ==
    \E resolves, works \in SUBSET (1..CurrentStep.selectors) :
        LET att == TrySelectors(CurrentStep.selectors, 1, resolves, works, NoAttempt)
            sc  == [scenario_result EXCEPT !.attempt[scenario_result.i] = att]
        IN  scenario_result' = IF att.worked # {} THEN StepCompleted(sc)
                        ELSE StepRaised(sc, could_not)

\* action == "fill"
step_fill ==
    /\ AtStep("fill")
    /\ FillOrClick("Could not find element")
    /\ UNCHANGED <<service, planner, executor, crawl>>

\* action == "click"
step_click ==
    /\ AtStep("click")
    /\ FillOrClick("Could not click element")
    /\ UNCHANGED <<service, planner, executor, crawl>>

\* action == "wait": wait_for_load_state, which may raise
step_wait ==
    /\ AtStep("wait")
    /\ \E idle \in BOOLEAN :
          scenario_result' = IF idle THEN StepCompleted(scenario_result)
                      ELSE StepRaised(scenario_result, "Timeout")
    /\ UNCHANGED <<service, planner, executor, crawl>>

\* action == "assert": page_loaded asserts page.title(); url_changed is
\* `pass`; error_message_visible computes `found` and does not read it;
\* no other target has a branch
step_assert ==
    /\ AtStep("assert")
    /\ \E holds \in BOOLEAN :
          LET sc == [scenario_result EXCEPT
                        !.held[scenario_result.i] = IF holds THEN "true" ELSE "false"]
          IN  scenario_result' =
                 IF CurrentStep.target = "page_loaded" /\ ~holds
                 THEN StepRaised(sc, "Page did not load")
                 ELSE StepCompleted(sc)
    /\ UNCHANGED <<service, planner, executor, crawl>>

\* After the loop: scenario_result["status"] = "passed"
execute_scenario_return ==
    /\ scenario_result.pc = "steps" /\ scenario_result.i > Len(scenario_result.steps)
    /\ scenario_result' = [scenario_result EXCEPT !.pc = "returned", !.status = "passed"]
    /\ UNCHANGED <<service, planner, executor, crawl>>

---------------------------------------------------------------------------
(* Specifications *)

\* env.ids: the run ids that may be handed out; env.raises: the tool calls
\* of one run that may raise; env.failing: tests may fail; env.browser: the
\* browser may fail to start or to open a page; env.faults: save_runs may
\* fail, tasks may be cancelled and the process may die; env.plans: the
\* scenario runs are started for every plan and every selection.

\* One run with everything that can go wrong in it
OneRun ==
    [ids |-> 1, raises |-> MaxRaises, failing |-> TRUE, browser |-> TRUE,
     faults |-> TRUE, plans |-> FALSE, local |-> FALSE]

\* Several concurrent runs on a store and a process that do not fail
ManyRuns ==
    [ids |-> MaxRuns, raises |-> 0, failing |-> FALSE, browser |-> TRUE,
     faults |-> FALSE, plans |-> FALSE, local |-> FALSE]

\* More runs than max_concurrent_runs, nothing failing
Crowd ==
    [ids |-> MaxConcurrentRuns + 1, raises |-> 0, failing |-> FALSE,
     browser |-> FALSE, faults |-> FALSE, plans |-> FALSE, local |-> FALSE]

\* One scenario run, for every plan and every selection of its scenarios
ScenarioRuns ==
    [ids |-> 1, raises |-> 0, failing |-> TRUE, browser |-> TRUE,
     faults |-> FALSE, plans |-> TRUE, local |-> FALSE]

\* The run service after module load, in the environment e
InitService(e) ==
    /\ env = e
    /\ RUNS = NoRuns
    /\ disk = EmptyDoc
    /\ up = TRUE
    /\ nextId = 1
    /\ task = [r \in Ids |-> NoTask]
    /\ graph = [r \in Ids |-> InitialGraphState]
    /\ hist = [r \in Ids |-> NoHist]
    /\ boot = FreshBoot
    /\ fs = InitialFiles

InitWith(e) ==
    /\ InitService(e)
    /\ planner = NoPlanner
    /\ executor = NoExecutor
    /\ crawl = NoCrawl
    /\ scenario_result = NoScenarioCall

Init == InitWith(OneRun)
InitServer == InitWith(ManyRuns)
InitCrowd == InitWith(Crowd)
InitScenarios == InitWith(ScenarioRuns)

\* Runs of a target_url and runs of a local project, with credentials and
\* without, on a store and a process that do not fail
Projects ==
    [ids |-> MaxRuns, raises |-> 0, failing |-> FALSE, browser |-> TRUE,
     faults |-> FALSE, plans |-> FALSE, local |-> TRUE]

InitFiles == InitWith(Projects)

\* No run: generate_test_plan(app_map) for the app map of an exploration
Idle ==
    [ids |-> 0, raises |-> 0, failing |-> FALSE, browser |-> FALSE,
     faults |-> FALSE, plans |-> FALSE, local |-> FALSE]

InitPlanner ==
    /\ InitService(Idle)
    /\ \E pages \in PageLists(MaxPages) :
          planner = NewPlanner(group_into_modules(pages))
    /\ executor = NoExecutor
    /\ crawl = NoCrawl
    /\ scenario_result = NoScenarioCall

Next ==
    \/ \E r \in Ids : start_run(r)
    \/ \E r \in Ids : run_plan_scenarios(r)
    \/ \E r \in Ids : delete_run(r)
    \/ delete_all_runs
    \/ \E r \in Ids : run_agent_task_begin(r)
    \/ \E r \in Ids : run_agent_task_step(r)
    \/ \E r \in Ids : run_agent_task_finish(r)
    \/ \E r \in Ids : run_scenarios_task_begin(r)
    \/ \E r \in Ids : run_scenarios_task_launch(r)
    \/ \E r \in Ids : run_scenarios_task_auth(r)
    \/ \E r \in Ids : run_scenarios_task_step(r)
    \/ \E r \in Ids : run_scenarios_task_finish(r)
    \/ \E r \in Ids : cancel(r)
    \/ crash
    \/ restart

\* The handlers and the tasks, in a process that stays alive
NextServer ==
    \/ \E r \in Ids : start_run(r)
    \/ \E r \in Ids : run_plan_scenarios(r)
    \/ \E r \in Ids : delete_run(r)
    \/ delete_all_runs
    \/ \E r \in Ids : run_agent_task_begin(r)
    \/ \E r \in Ids : run_agent_task_step(r)
    \/ \E r \in Ids : run_agent_task_finish(r)
    \/ \E r \in Ids : run_scenarios_task_begin(r)
    \/ \E r \in Ids : run_scenarios_task_launch(r)
    \/ \E r \in Ids : run_scenarios_task_auth(r)
    \/ \E r \in Ids : run_scenarios_task_step(r)
    \/ \E r \in Ids : run_scenarios_task_finish(r)

\* The handlers, the agent tasks, the scenario tasks up to their browser
\* context, and the readers of the progress file
NextFiles ==
    \/ \E r \in Ids : start_run(r)
    \/ \E r \in Ids : run_plan_scenarios(r)
    \/ \E r \in Ids : delete_run(r)
    \/ delete_all_runs
    \/ \E r \in Ids : get_execution_progress(r)
    \/ \E r \in Ids : run_agent_task_begin(r)
    \/ \E r \in Ids : run_agent_task_step(r)
    \/ \E r \in Ids : run_agent_task_finish(r)
    \/ \E r \in Ids : run_scenarios_task_begin(r)
    \/ \E r \in Ids : run_scenarios_task_launch(r)

\* The start of runs and of their tasks only
NextCrowd ==
    \/ \E r \in Ids : start_run(r)
    \/ \E r \in Ids : run_plan_scenarios(r)
    \/ \E r \in Ids : run_agent_task_begin(r)
    \/ \E r \in Ids : run_scenarios_task_begin(r)

\* A scenario run from the request to the end of its task
NextScenarios ==
    \/ \E r \in Ids : run_plan_scenarios(r)
    \/ \E r \in Ids : run_scenarios_task_begin(r)
    \/ \E r \in Ids : run_scenarios_task_launch(r)
    \/ \E r \in Ids : run_scenarios_task_auth(r)
    \/ \E r \in Ids : run_scenarios_task_step(r)
    \/ \E r \in Ids : run_scenarios_task_finish(r)

\* PlannerAgent(app_map).generate_scenarios()
NextPlanner ==
    \/ generate_auth_scenarios
    \/ generate_dashboard_scenarios
    \/ generate_profile_scenarios
    \/ generate_crud_scenarios
    \/ generate_general_scenarios
    \/ generate_scenarios

\* One call of the execute tool, for every content of the plan files
InitExecute ==
    /\ InitService(Idle)
    /\ planner = NoPlanner
    /\ crawl = NoCrawl
    /\ scenario_result = NoScenarioCall
    /\ \E all_scenarios \in TestPlans : executor = NewExecutor(all_scenarios)

NextExecute ==
    \/ testsprite_generate_code_and_execute
    \/ subprocess_run
    \/ run_test_start
    \/ run_test_page
    \/ run_test_result
    \/ run_test_print
    \/ subprocess_returns
    \/ subprocess_timeout
    \/ execute_output

\* One crawl, for every max_pages up to the number of URLs
InitExplorer ==
    /\ InitService(Idle)
    /\ planner = NoPlanner
    /\ executor = NoExecutor
    /\ \E max_pages \in 0..NUrls : crawl = NewCrawl(max_pages)
    /\ scenario_result = NoScenarioCall

NextExplorer ==
    \/ explore
    \/ explore_page
    \/ explore_page_return
    \/ explore_return
    \/ run_exploration_task

\* execute_scenario for every list of steps
InitSteps ==
    /\ InitService(Idle)
    /\ planner = NoPlanner
    /\ executor = NoExecutor
    /\ crawl = NoCrawl
    /\ \E steps \in StepLists : scenario_result = NewScenarioCall(steps)

NextSteps ==
    \/ step_navigate
    \/ step_fill
    \/ step_click
    \/ step_wait
    \/ step_assert
    \/ execute_scenario_return

Spec == Init /\ [][Next]_vars
SpecServer == InitServer /\ [][NextServer]_vars
SpecFiles == InitFiles /\ [][NextFiles]_vars
SpecCrowd == InitCrowd /\ [][NextCrowd]_vars
SpecScenarios == InitScenarios /\ [][NextScenarios]_vars
SpecPlanner == InitPlanner /\ [][NextPlanner]_vars
SpecExecute == InitExecute /\ [][NextExecute]_vars
SpecExplorer == InitExplorer /\ [][NextExplorer]_vars
SpecSteps == InitSteps /\ [][NextSteps]_vars

\* The crawl when the coroutine of explore is run whenever it can go on
SpecExplorerFair ==
    InitExplorer /\ [][NextExplorer]_vars /\ WF_vars(NextExplorer)

---------------------------------------------------------------------------
(* Properties of the stage graph *)

MaxRetriesOf(r) == Get(graph[r].max_retries, DefaultMaxRetries)
RetriesOf(r) == Get(graph[r].retries, DefaultRetries)
GraphEnded(r) == graph[r].next = "END"

\* C1 (retry loop bound): in a run whose every execute invocation answers
\* a non-zero exit code, once the graph has ended execute was invoked
\* exactly max_retries + 1 times, retries is max_retries, report ran once,
\* and the task that ended without a failed save left the status completed.
C1_RetryLoopBound ==
    \A r \in Ids :
        (GraphEnded(r) /\ hist[r].only_failing) =>
            /\ hist[r].execute = MaxRetriesOf(r) + 1
            /\ RetriesOf(r) = MaxRetriesOf(r)
            /\ hist[r].report = 1
            /\ (task[r].pc = "done" /\ ~hist[r].save_failed /\ RUNS[r] # NoRun)
                  => RUNS[r].status = "completed"

\* C2 (the retry edge is bounded): the edge fix_tests -> execute is taken
\* at most max_retries times, whatever fix_tests and execute do, and a
\* graph that ended ran report.
C2_RetryEdgeBounded ==
    \A r \in Ids :
        /\ hist[r].fix_tests <= MaxRetriesOf(r)
        /\ GraphEnded(r) => hist[r].report = 1

\* C3 (steps_completed has no duplicates): at the end of the graph each
\* stage name other than execute occurs at most once in steps_completed,
\* and execute at most 1 + retries times.
C3_StepsAtMostOnce ==
    \A r \in Ids :
        GraphEnded(r) =>
            /\ \A n \in StageNames \ {"execute"} :
                   Count(graph[r].steps_completed, n) <= 1
            /\ Count(graph[r].steps_completed, "execute") <= 1 + RetriesOf(r)

\* security_plan failed while frontend_plan and backend_plan succeeded
OnlySecurityFailed(r) ==
    /\ Count(graph[r].error_log, "security_plan") > 0
    /\ Count(graph[r].steps_completed, "frontend_plan") > 0
    /\ Count(graph[r].steps_completed, "backend_plan") > 0

\* C4 (one failed plan does not abort the run): when only security_plan
\* failed, the graph that ended ran join_plans and execute, execute read
\* no other plan than the frontend and the backend plan, and error_log
\* holds exactly one entry of security_plan.
C4_SecurityPlanFailure ==
    \A r \in Ids :
        (GraphEnded(r) /\ OnlySecurityFailed(r)) =>
            /\ hist[r].join_plans >= 1
            /\ hist[r].execute >= 1
            /\ graph[r].executed_plans \subseteq
                   {PlanFile.frontend, PlanFile.backend}
            /\ Count(graph[r].error_log, "security_plan") = 1

---------------------------------------------------------------------------
(* Properties of the run store and of the tasks *)

StatusMoves ==
    { <<"absent", "pending">>, <<"pending", "running">>,
      <<"running", "completed">>, <<"running", "failed">> }

\* C5 (status order, terminal records are frozen): in a live process every
\* step leaves the status of a run as it is, moves it along pending ->
\* running -> completed | failed, or deletes the run; and a record that is
\* completed or failed is not changed by any later step, in RUNS and in
\* runs.json, short of its deletion.
C5_TerminalIsFinal ==
    [][(up /\ up') =>
          \A r \in Ids :
              /\ \/ RUNS'[r].status = RUNS[r].status
                 \/ <<RUNS[r].status, RUNS'[r].status>> \in StatusMoves
                 \/ RUNS'[r] = NoRun
              /\ RUNS[r].status \in Terminal => RUNS'[r] \in {RUNS[r], NoRun}
              /\ load_runs(disk)[r].status \in Terminal =>
                    load_runs(disk')[r] \in {load_runs(disk)[r], NoRun}]_vars

\* A completed or failed run whose record was last written by its own
\* task, after the task of another run has run a block and saved RUNS
C5_Witness ==
    \E r, q \in Ids :
        /\ r # q
        /\ hist[r].outlived
        /\ RUNS[r].status \in Terminal
        /\ load_runs(disk)[r] = RUNS[r]
        /\ RUNS[q].status \in Terminal
        /\ RUNS[q].type = "scenario_run"
        /\ Len(RUNS[q].results) = NScenarios

\* C6 (save_runs is atomic and durable): after the process died inside
\* save_runs, the restart loads the store as it was before that save or
\* as it is after it.
C6_CrashAtomicSave ==
    [][(~up /\ up' /\ boot.mid_save) =>
          RUNS' \in {load_runs(boot.before), load_runs(boot.after)}]_vars

\* C7 (recovery of interrupted runs): after a restart every run that
\* runs.json holds as pending or running is failed in the reloaded store.
C7_InterruptedRunsFailed ==
    [][(~up /\ up') =>
          \A r \in Ids :
              load_runs(disk)[r].status \in {"pending", "running"} =>
                  RUNS'[r].status = "failed"]_vars

\* C8 (a failed save fails the run): an agent run one of whose saves
\* raised is failed once its task is over, and ran no stage after that
\* save.
C8_SaveFailureFailsRun ==
    \A r \in Ids :
        ( /\ up /\ boot.phase = "fresh"
          /\ task[r].kind = "agent" /\ task[r].pc \in {"done", "dead"}
          /\ hist[r].save_failed /\ RUNS[r] # NoRun ) =>
            /\ RUNS[r].status = "failed"
            /\ ~hist[r].late_stage

\* C9 (cancellation fails the run): a run whose task was cancelled is
\* failed, and no stage of it started after the cancellation.
C9_CancelledRunFailed ==
    \A r \in Ids :
        (up /\ boot.phase = "fresh" /\ hist[r].cancelled /\ RUNS[r] # NoRun) =>
            /\ RUNS[r].status = "failed"
            /\ ~hist[r].late_stage

\* C10 (concurrency cap): at most max_concurrent_runs runs are running.
C10_ConcurrencyCap ==
    Cardinality({r \in Ids : RUNS[r].status = "running"}) <= MaxConcurrentRuns

---------------------------------------------------------------------------
(* Properties of the scenario runs *)

\* The position of the result of scenario id in results, 0 when it has none
ResultIndex(results, id) ==
    IF \E k \in 1..Len(results) : results[k].id = id
    THEN CHOOSE k \in 1..Len(results) : results[k].id = id
    ELSE 0

\* C11 (depends_on is a happens-before): every scenario of a run that has a
\* result and a depends_on d was run after d got its result, whatever the
\* selection of the request.
C11_DependencyRunsFirst ==
    \A r \in Ids :
        \A k \in 1..Len(task[r].scenarios) :
            LET sc == task[r].scenarios[k]
                at == ResultIndex(task[r].results, sc.id)
                dep == ResultIndex(task[r].results, sc.depends_on)
            IN  (sc.depends_on # 0 /\ at # 0) => (dep # 0 /\ dep < at)

\* C12 (a failed dependency skips the dependent): a scenario whose
\* dependency has the result failed has itself the result skipped.
C12_FailedDependencySkips ==
    \A r \in Ids :
        \A k \in 1..Len(task[r].scenarios) :
            LET sc == task[r].scenarios[k]
                at == ResultIndex(task[r].results, sc.id)
                dep == ResultIndex(task[r].results, sc.depends_on)
            IN  ( /\ sc.depends_on # 0 /\ at # 0 /\ dep # 0
                  /\ task[r].results[dep].status = "failed" ) =>
                    task[r].results[at].status = "skipped"

---------------------------------------------------------------------------
(* Properties of the Planner *)

\* C13 (depends_on points back into the plan): every scenario the Planner
\* has emitted with a depends_on names the id of a scenario emitted before
\* it.
C13_DependsOnEarlierScenario ==
    \A k \in 1..Len(planner.scenarios) :
        planner.scenarios[k].depends_on # None =>
            \E j \in 1..(k - 1) :
                planner.scenarios[j].id = planner.scenarios[k].depends_on

\* The number of scenarios among the first k emitted that have the prefix
\* of the k-th
OrdinalInPrefix(scs, k) ==
    Cardinality({j \in 1..k : scs[j].id.prefix = scs[k].id.prefix})

\* C14 (ids are sequential per prefix): the k-th scenario emitted with a
\* prefix P has the id P_k with three digits.
C14_SequentialPerPrefix ==
    \A k \in 1..Len(planner.scenarios) :
        planner.scenarios[k].id =
            ScenarioId(planner.scenarios[k].id.prefix,
                       OrdinalInPrefix(planner.scenarios, k))

\* The pages of the auth module of the app map, and its scenarios in the
\* test plan that was returned
AuthPages ==
    LET auth == SelectSeq(planner.modules, LAMBDA m : m.name = "auth")
    IN  IF auth = <<>> THEN <<>> ELSE auth[1].pages

AuthScenarios ==
    LET auth == SelectSeq(planner.test_plan, LAMBDA m : m.name = "auth")
    IN  IF auth = <<>> THEN <<>> ELSE auth[1].scenarios

PagesOfType(pages, type) == {k \in 1..Len(pages) : pages[k].type = type}

\* auth_001 .. auth_004 as happy_path, error_path, edge_case, security,
\* each without a depends_on
FourLoginScenarios ==
    LET types == <<"happy_path", "error_path", "edge_case", "security">>
    IN  [k \in 1..4 |->
            [ id |-> ScenarioId("auth", k), module |-> "auth",
              type |-> types[k], depends_on |-> None ]]

\* C15 as stated (one login page gives four auth scenarios): when the auth
\* module holds exactly one login page, the auth scenarios of the plan are
\* auth_001 .. auth_004 with the types happy_path, error_path, edge_case,
\* security and no depends_on.
C15_OneLoginPage ==
    (planner.pc = "done" /\ Cardinality(PagesOfType(AuthPages, "login")) = 1)
        => AuthScenarios = FourLoginScenarios

\* C15 amended: the same, when the auth module holds exactly one login page
\* and no register page.
C15_OneLoginPageNoRegister ==
    ( /\ planner.pc = "done"
      /\ Cardinality(PagesOfType(AuthPages, "login")) = 1
      /\ PagesOfType(AuthPages, "register") = {} )
        => AuthScenarios = FourLoginScenarios

\* A plan was returned for an app map with one login page, no register
\* page and a page of another module
C15_Witness ==
    /\ planner.pc = "done"
    /\ Cardinality(PagesOfType(AuthPages, "login")) = 1
    /\ PagesOfType(AuthPages, "register") = {}
    /\ Len(planner.modules) > 1
    /\ Len(planner.scenarios) > 4

---------------------------------------------------------------------------
(* Properties of the execute tool *)

\* The ids of the scenarios of the call
PlanIds ==
    {executor.all_scenarios[k].id : k \in 1..Len(executor.all_scenarios)}

\* C16: the exit code the execute tool returns is 0 exactly when the result
\* of every executed scenario is passed or skipped, and 1 otherwise; it is
\* 1 when a scenario timed out or when its subprocess could not be
\* launched.
C16_ExitCodeIffNoFailure ==
    executor.pc = "done" =>
        /\ executor.output.exit_code \in {0, 1}
        /\ executor.output.exit_code = 0
              <=> \A t \in PlanIds : executor.all_results[t] \in {"passed", "skipped"}
        /\ (\E t \in PlanIds : executor.fate[t] \in {"timeout", "not launched"})
              => executor.output.exit_code = 1

\* A call that ended with a skipped scenario and one that timed out
C16_Witness ==
    /\ executor.pc = "done"
    /\ executor.output.exit_code = 1
    /\ \E t \in PlanIds : executor.all_results[t] = "skipped"
    /\ \E t \in PlanIds : executor.fate[t] = "timeout"

\* The scenarios whose subprocess was started are in the order of the plan
LaunchedInOrder ==
    \A a, b \in 1..Len(executor.launched) :
        a < b => executor.launched[a] < executor.launched[b]

\* C17: when the subprocess of a scenario exceeds the cap, the result of
\* the scenario is failed, the progress file holds status failed with the
\* timeout message for it, and the scenarios after it are still executed,
\* in order.
C17_TimeoutFailsAndContinues ==
    \A t \in PlanIds :
        executor.fate[t] = "timeout" =>
            /\ executor.all_results[t] = "failed"
            /\ executor.progress.readable
            /\ executor.progress.results[t]
                  = [status |-> "failed", message |-> "Timeout"]
            /\ LaunchedInOrder
            /\ executor.pc = "done"
                  => \A u \in PlanIds : executor.fate[u] # "none"

\* C18: the statuses written to the progress file for a scenario are
\* pending, then running once or more, then exactly one of passed, failed
\* and skipped; nothing writes the status of the scenario after that.
C18_StatusSequence ==
    \A t \in PlanIds :
        LET w == executor.wrote[t]
        IN  /\ \A k \in 1..Len(w) : (w[k] = "pending") <=> (k = 1)
            /\ \A k \in 1..(Len(w) - 1) : w[k] \notin TerminalStatus
            /\ Len(w) >= 2 => w[2] = "running"
            /\ executor.pc = "done"
                  => Len(w) >= 3 /\ w[Len(w)] \in TerminalStatus

\* C19: no scenario id is twice in the completed list of the progress
\* file, however the updates of the subprocess and the handling of the
\* timeout interleave.
C19_CompletedNoDuplicates ==
    \A a, b \in 1..Len(executor.progress.completed) :
        executor.progress.completed[a] = executor.progress.completed[b] => a = b

---------------------------------------------------------------------------
(* Properties of the Explorer *)

\* C20: during a crawl the number of visited URLs never exceeds max_pages,
\* so the app map has total_pages <= max_pages; with max_pages = 0 nothing
\* is navigated to and the app map has no pages, no modules and no
\* auth_pages.
C20_CrawlBound ==
    /\ Cardinality(crawl.visited_urls) <= crawl.max_pages
    /\ Len(crawl.pages) <= crawl.max_pages
    /\ crawl.pc = "done" => crawl.total_pages <= crawl.max_pages
    /\ crawl.max_pages = 0 =>
          /\ crawl.gotos = 0
          /\ crawl.pages = <<>> /\ crawl.auth_pages = <<>>
          /\ crawl.pc = "done" => crawl.modules = <<>> /\ crawl.total_pages = 0

\* A crawl that refused a URL because max_pages pages were visited
C20_Witness ==
    /\ crawl.pc = "done"
    /\ crawl.max_pages > 0
    /\ crawl.capped
    /\ crawl.total_pages = crawl.max_pages

---------------------------------------------------------------------------
(* Properties of the decision, of fix_tests and of the order of the stages *)

\* C28: the decision after execute is fix_tests exactly when the exit code
\* in test_results is non-zero and retries < max_retries; in every other
\* state it is report.
C28_FixIffFailedAndRetriesLeft ==
    [][\A r \in Ids :
          (up' /\ graph[r].next = "execute" /\ graph'[r] # graph[r]) =>
              LET s == graph'[r]
                  failed == s.test_results # <<>> /\ s.test_results[1] # 0
                  left == RetriesOf(r)' < MaxRetriesOf(r)'
              IN  /\ s.next \in {"fix_tests", "report"}
                  /\ s.next = "fix_tests" <=> (failed /\ left)]_vars

\* A run whose tests still fail goes to report: no retry is left
C28_Witness ==
    \E r \in Ids :
        /\ graph[r].next = "report"
        /\ graph[r].test_results # <<>> /\ graph[r].test_results[1] # 0
        /\ RetriesOf(r) = MaxRetriesOf(r)

\* C29: every execution of fix_tests increases retries by exactly 1,
\* whether the fix tool succeeds, answers success = false, or the stage
\* raises.
C29_FixIncrementsRetries ==
    [][\A r \in Ids :
          (up' /\ graph[r].next = "fix_tests" /\ graph'[r] # graph[r]) =>
              RetriesOf(r)' = RetriesOf(r) + 1]_vars

\* The edges of the compiled graph, the three plan stages being one step
StageEdges ==
    { <<"bootstrap", "analyze">>, <<"analyze", "prd">>, <<"prd", "plans">>,
      <<"plans", "join_plans">>, <<"join_plans", "execute">>,
      <<"execute", "fix_tests">>, <<"execute", "report">>,
      <<"fix_tests", "execute">>, <<"report", "END">> }

\* C30: the stages run in the topological order of the graph: bootstrap
\* before analyze, analyze before prd, prd before the three plan stages,
\* the three of them before join_plans, join_plans before the first
\* execute, and report only after the last execute.
C30_TopologicalOrder ==
    [][\A r \in Ids :
          (up' /\ graph'[r].next # graph[r].next) =>
              /\ <<graph[r].next, graph'[r].next>> \in StageEdges
              /\ graph'[r].next = "execute" => hist'[r].join_plans >= 1
              /\ graph'[r].next = "END" =>
                    hist'[r].report = 1 /\ hist'[r].execute >= 1]_vars

\* A graph that ended after a retry
C30_Witness ==
    \E r \in Ids :
        /\ graph[r].next = "END"
        /\ hist[r].fix_tests >= 1
        /\ hist[r].report = 1

---------------------------------------------------------------------------
(* Properties of the crawl and of the exploration task *)

\* C21: the Explorer never navigates to a URL whose host differs from the
\* host of base_url, and every page of the app map has that host, whatever
\* the links of the pages are.
C21_SameHostOnly ==
    /\ \A url \in crawl.visited_urls : netloc(url) = domain
    /\ \A k \in 1..Len(crawl.pages) : netloc(crawl.pages[k].url) = domain

\* A crawl that met a link to another host and returned an app map with
\* more than one page
C21_Witness ==
    /\ crawl.pc = "done"
    /\ crawl.foreign
    /\ crawl.total_pages > 1

\* C22: when the navigation to the base URL fails, explore fails instead
\* of returning an app map, and the exploration task marks the plan
\* failed, not ready.
C22_BaseUrlFailureFailsPlan ==
    crawl.base_response = "raise" =>
        /\ crawl.pc # "done"
        /\ crawl.status # "ready"

---------------------------------------------------------------------------
(* Properties of the test mode of a scenario *)

\* C23: a scenario that carries an endpoint and an HTTP method is executed
\* in request-only mode.  Once its test code is chosen the mode is the API
\* test mode, its subprocess launches no browser (so that no video and no
\* screenshot is recorded), and when the subprocess has returned the
\* published status is passed if and only if the response was below 500.
C23_EndpointRunsWithoutBrowser ==
    \A k \in 1..Len(executor.all_scenarios) :
        LET scenario == executor.all_scenarios[k]
            t == scenario.id
        IN  (scenario.endpoint /\ scenario.method # "none"
                /\ executor.mode[t] # "none")
            => /\ executor.mode[t] = "api"
               /\ ~executor.browser[t]
               /\ executor.fate[t] = "returned"
                    => (executor.progress.results[t].status = "passed"
                          <=> (executor.response[t] \in StatusCodes
                                 /\ executor.response[t] < 500))

---------------------------------------------------------------------------
(* Properties of the files of the runs and of the run store *)

\* C24: every file a run creates, overwrites or deletes lies under the
\* run's own tree temp_runs/<run_id>: the task of a run writes into no
\* other directory, no two runs write into the same directory, and
\* delete_run removes no other directory.
C24_OwnTreeOnly ==
    /\ \A r \in Ids : /\ hist[r].wrote \subseteq {TempRun(r)}
                      /\ hist[r].removed \subseteq {TempRun(r)}
    /\ \A r, q \in Ids : r # q => hist[r].wrote \cap hist[q].wrote = {}

\* C25: after delete_run(r) the record of the run is absent from the store
\* and its directory, with every directory it wrote into, is absent from
\* the disk, and they stay absent, whatever the task of the run was doing.
C25_DeletedStaysDeleted ==
    \A r \in Ids :
        hist[r].deleted =>
            /\ RUNS[r] = NoRun
            /\ \A t \in hist[r].wrote \cup {TempRun(r)} : fs[t] = "absent"

\* C26: the round trip of the run store.  After start_run has put a
\* record, GET of its id returns that record; after a delete, GET of the id
\* answers 404; and after each of the two, runs.json read back is the
\* store in memory.
C26_StoreRoundTrip ==
    [][\A r \in Ids :
          /\ (RUNS[r] = NoRun /\ RUNS'[r] # NoRun /\ RUNS'[r].type = "agent")
                => /\ \E request \in RunRequests :
                        get_run_status(RUNS', r) =
                            [status_code |-> 200, run |-> NewAgentRun(r, request)]
                   /\ load_runs(disk') = RUNS'
          /\ (RUNS[r] # NoRun /\ RUNS'[r] = NoRun)
                => /\ get_run_status(RUNS', r).status_code = 404
                   /\ load_runs(disk') = RUNS']_vars

\* A run is stored after another one was deleted
C26_Witness ==
    \E r, q \in Ids :
        /\ r < nextId /\ RUNS[r] = NoRun /\ load_runs(disk)[r] = NoRun
        /\ RUNS[q].type = "agent" /\ load_runs(disk)[q] = RUNS[q]

\* C27: the progress endpoint does not fail on a progress file that is
\* missing or partly written: for a run of the store the answer is the
\* pending object when there is no file, the error object when the file
\* cannot be parsed, and else the progress that was read.
C27_ProgressNeverFails ==
    \A r \in Ids :
        LET p == hist[r].progress
        IN  p.response \notin {"none", "404"}
            => p.response = CASE p.view = "absent"  -> "pending"
                              [] p.view = "partial" -> "error"
                              [] OTHER              -> "progress"

---------------------------------------------------------------------------
(* Properties of the plan stages, of a failing stage and of the decision *)

PlanStages == {"frontend_plan", "backend_plan", "security_plan"}

\* The graph of run r is past the plan stages
PlansMerged(r) ==
    graph[r].next \in {"join_plans", "execute", "fix_tests", "report", "END"}

NodesOf(next) == IF next = "plans" THEN Cardinality(PlanStages) ELSE 1

---------------------------------------------------------------------------
(* Properties of the steps of a scenario *)

\* The messages that name the predicate `target`
MessagesOf(target) ==
    IF target = "page_loaded" THEN {"page_loaded", "Page did not load"}
    ELSE {target}

\* C33: when the predicate of an assert step is false, whatever predicate
\* of the enum it is, the scenario returns with status failed and a
\* message that names the predicate, and the step and the steps after it
\* are not completed.
C33_FalseAssertFailsScenario ==
    \A k \in 1..Len(scenario_result.steps) :
        (scenario_result.pc = "returned" /\ scenario_result.held[k] = "false")
        => /\ scenario_result.status = "failed"
           /\ scenario_result.error \in MessagesOf(scenario_result.steps[k].target)
           /\ Len(scenario_result.steps_completed) < k

\* The selectors of 1..m, in the order of the list
InListOrder(tried) == \A j \in 1..Len(tried) : tried[j] = j

\* Step k, a fill or click step, has been run
Attempted(k) ==
    /\ k <= Len(scenario_result.steps)
    /\ scenario_result.steps[k].action \in {"fill", "click"}
    /\ (k < scenario_result.i \/ (scenario_result.pc = "returned" /\ k = scenario_result.i))

\* C34 as stated: a fill or click step tries the selectors of its target
\* in list order and stops at the first one that resolves; if none
\* resolves the scenario ends failed and no later step is executed.
C34_StopsAtFirstResolved ==
    \A k \in StepIndices :
        Attempted(k) =>
            LET att == scenario_result.attempt[k]
            IN  /\ InListOrder(att.tried)
                /\ \A j \in att.resolved : j = Len(att.tried)
                /\ att.resolved = {}
                     => /\ scenario_result.status = "failed"
                        /\ Len(scenario_result.steps_completed) < k

\* C34: a fill or click step tries the selectors of its target in list
\* order and stops at the first one that resolves and takes the fill or
\* click; no later selector is tried.  If there is no such selector, all
\* of them have been tried, the scenario ends failed and no later step is
\* executed.
C34_StopsAtFirstThatWorks ==
    \A k \in StepIndices :
        Attempted(k) =>
            LET att == scenario_result.attempt[k]
            IN  /\ InListOrder(att.tried)
                /\ att.worked \subseteq att.resolved
                /\ \A j \in att.worked : j = Len(att.tried)
                /\ att.worked = {}
                     => /\ Len(att.tried) = scenario_result.steps[k].selectors
                        /\ scenario_result.pc = "returned"
                        /\ scenario_result.status = "failed"
                        /\ Len(scenario_result.steps_completed) < k

\* A step acted on its second selector after the first one did not
\* resolve, and a later step failed for want of a selector
C34_Witness ==
    \E k, l \in StepIndices :
        /\ k < l /\ Attempted(k) /\ Attempted(l)
        /\ scenario_result.attempt[k].tried = <<1, 2>>
        /\ scenario_result.attempt[k].worked = {2}
        /\ scenario_result.attempt[l].worked = {}
        /\ scenario_result.status = "failed"

---------------------------------------------------------------------------
(* Termination of the crawl *)

\* C35: explore terminates, whatever the links of the pages are (cycles
\* and links of a page to itself among them) and whatever page.goto meets:
\* every URL is navigated at most once, a URL of the host that was not
\* visited is refused only when max_pages URLs have been visited, and
\* explore returns (or raises) with no link left to follow.
C35_CrawlTerminates ==
    /\ [](/\ crawl.gotos = Cardinality(crawl.visited_urls)
          /\ crawl.gotos <= crawl.max_pages
          /\ crawl.capped
                => Cardinality(crawl.visited_urls) >= crawl.max_pages
          /\ crawl.pc = "done" => crawl.stack = <<>>)
    /\ <>(crawl.pc \in {"done", "raised"})

\* The crawl is over after a page that links to itself and to the page it
\* was reached from, and after a navigation that failed
C35_Witness ==
    /\ crawl.pc = "done"
    /\ crawl.gotos >= 2
    /\ Len(crawl.pages) < crawl.gotos

---------------------------------------------------------------------------
(* Properties of an execution that raised, of the composite results and of
   the progress file *)

\* C36: when the tool of execute raised, so that the invocation wrote no
\* test_results, the decision after it counts the invocation as a failing
\* execution: the graph moves to fix_tests while retries < max_retries, and
\* to report only when the retries are used up.
C36_RaisedExecuteIsFailing ==
    [][\A r \in Ids :
          (/\ up'
           /\ graph[r].next = "execute"
           /\ hist'[r].raised > hist[r].raised)
          => graph'[r].next =
                 IF Get(graph[r].retries, DefaultRetries)
                        < Get(graph[r].max_retries, DefaultMaxRetries)
                 THEN "fix_tests"
                 ELSE "report"]_vars

\* C37: in the composite results a scenario is passed only if its
\* subprocess reported passed: whenever all_results holds passed for a
\* scenario, the last status its subprocess wrote to the results of the
\* progress file is passed, and not running, failed or none at all.
C37_PassedOnlyIfReported ==
    \A t \in TestIds :
        (executor.all_results[t] = "passed" /\ executor.progress.readable)
            => executor.progress.results[t].status = "passed"

\* C38: when the tool returns, the progress file holds status completed
\* and no current test, every scenario of the merged plan has a terminal
\* status in its results, and completed holds as many ids as there are
\* scenarios; also after a subprocess that was killed while it wrote the
\* file, and after one that could not be launched.
C38_ProgressFileAtReturn ==
    executor.pc = "done" =>
        /\ executor.progress.readable
        /\ executor.progress.status = "completed"
        /\ executor.progress.current_test = 0
        /\ \A k \in 1..Len(executor.all_scenarios) :
               executor.progress.results[executor.all_scenarios[k].id].status
                   \in TerminalStatus
        /\ Len(executor.progress.completed) = Len(executor.all_scenarios)

---------------------------------------------------------------------------
(* Properties of the credentials of a run *)

\* The credentials of the request of run r
OwnCredentials(r) == IF task[r].credentials THEN r ELSE NoCredentials

\* C39: the credentials the scripts of a run load are the credentials of
\* the request of that run, or none; they are never the credentials that
\* were given to another run, whatever runs came before on the same
\* target or on another one.
C39_OwnCredentialsOnly ==
    \A r \in Ids :
        hist[r].loaded # NotLoaded
            => hist[r].loaded \in {OwnCredentials(r), NoCredentials}

---------------------------------------------------------------------------
(* Termination of the runs *)

\* C40: every run whose task has started reaches the status completed or
\* failed while the process keeps running.  A task that has returned or
\* was left by an exception takes no further step, and nothing else in the
\* process writes the status of its run: the run reaches a terminal status
\* only if it has one when its task is over.
C40_StartedRunEnds ==
    \A r \in Ids :
        ( /\ up /\ boot.phase = "fresh"
          /\ task[r].pc \in {"done", "dead"}
          /\ RUNS[r] # NoRun ) =>
            RUNS[r].status \in Terminal

====
